---- MODULE Spec2Model ----
(***************************************************************************)
(* Session Store (AuthProvider of src/lib/auth-context.tsx) and the       *)
(* Request Client (src/lib/types.ts) of the to-do front end, modelled as  *)
(* a state machine.  One browser tab: the React state of the provider,    *)
(* the persisted "token" cookie, the asynchronous store operations that   *)
(* are in flight, and the backend answers that settle them.  Each action  *)
(* is one task of the browser's event loop: the synchronous part of a     *)
(* handler up to its next await, with React's state updates of that task  *)
(* committed together.                                                     *)
(***************************************************************************)
EXTENDS Naturals, FiniteSets, Sequences, Bags, TLC

\* ---------------------------------------------------------------- values

\* null / undefined: an absent user, token, cookie or response field.
None == "none"

\* The empty string: present in a payload, falsy in a JavaScript condition.
Empty == ""

\* Opaque bearer tokens the backend may hand out, and the identities it knows.
Tokens == {"t1", "t2"}
Users == {"u1", "u2"}

\* The token an earlier visit may have left in the cookie jar.  The tokens are
\* interchangeable, so one stored value stands for any.
StoredTokens == {"t1"}

\* The (email, password) pairs a caller may pass to login / signup.
Credentials ==
    {[email |-> "a@b.com", password |-> "pw1"],
     [email |-> "c@d.com", password |-> "pw2"]}

\* logout takes no arguments and its request has no body.
NoCredentials == [email |-> None, password |-> None]

\* Number of store operations (login, signup, logout) that may be in flight
\* at once.
MaxInFlight == 2

\* Number of complete-toggle actions a user performs on the task shown.
MaxToggles == 2

\* Cookies.set('token', ..., { expires: 7 })
CookieExpiryDays == 7

\* new Error('Invalid email or password') / new Error('Signup failed')
InvalidCredentials == "Invalid email or password"
SignupFailed == "Signup failed"

\* JavaScript truthiness of a string-or-object-or-null value.
Truthy(x) == x # None /\ x # Empty

\* ---------------------------------------------------------------- state

VARIABLES
    user,        \* useState<User | null>(null)
    token,       \* useState<string | null>(null)
    isLoading,   \* useState(true)
    cookie,      \* the persisted 'token' cookie: [value, expires], or NoCookie
    validation,  \* the mount effect and its validateToken() call
    calls,       \* the bag of login / signup / logout invocations in flight
    settled,     \* the store promise or auth-module helper call that settled
                 \* last, as its caller sees it
    wire,        \* the request the Request Client issued last
    touched,     \* a login, signup or logout has been started since mount
    tcalls,      \* the bag of the views' pending work: taskApi and fetch
                 \* promises that have not settled, timers that have not fired
    hcalls,      \* the bag of auth-module helper calls (signIn.email,
                 \* signUp.email, signOut) in flight
    page,        \* the page the router shows, with the dependencies its
                 \* redirect effect last ran with
    form,        \* the useState values of the page or component in use
    fetched,     \* the request a view issued last with window.fetch
    backend,     \* the task as the backend stores it
    listing      \* the dashboard's tasks, searchQuery and filter, and the
                 \* filteredTasks its last render computed

\* The Session Store, its cookie and the Request Client.
storeVars == <<user, token, isLoading, cookie, validation, calls, settled, wire, touched>>

\* The views and what they call.
viewVars == <<tcalls, hcalls, page, form, fetched, backend, listing>>

vars == <<storeVars, viewVars>>

\* Variant of CookieOf: the expiry option left out (a session cookie).
CookieOfSession(t) == [value |-> t, expires |-> 0]

\* What js-cookie holds after Cookies.set('token', t, { expires: 7 }).
CookieOf(t) == [value |-> t, expires |-> CookieExpiryDays]

\* The cookie jar without a 'token' cookie (after Cookies.remove('token')).
NoCookie == [value |-> None, expires |-> 0]

\* Cookies.get('token'): the value, or undefined when no cookie is stored.
CookiesGet == cookie.value

\* Variant of BearerNow: the header taken from the Session Store's in-memory
\* token instead of the cookie.
BearerFromStore == IF Truthy(token) THEN token ELSE None

\* The request interceptor: Authorization: Bearer <token> when the cookie
\* holds a truthy value at the time the request is issued, no header otherwise.
BearerNow == IF Truthy(CookiesGet) THEN CookiesGet ELSE None

\* ------------------------------------------------------------- responses

\* What POST /api/auth/signin and /api/auth/signup may settle with: a 2xx
\* payload whose user / access_token fields may be missing (or empty), a
\* rejection by the backend, a server error, or a transport failure.  axios
\* rejects the promise for every status outside 2xx.
AuthResponses ==
    [status : {"ok"}, user : Users \cup {None},
     access_token : Tokens \cup {None, Empty}]
    \cup [status : {"401", "500", "transport"}, user : {None},
          access_token : {None}]

\* What GET /api/auth/session may settle with.
SessionResponses ==
    [status : {"ok"}, user : Users \cup {None}]
    \cup [status : {"401", "500", "transport"}, user : {None}]

\* What POST /api/auth/signout may settle with.
SignoutResponses == {"ok", "500", "transport"}

\* ---------------------------------------------------------------- calls

\* A request as the Request Client issues it: the path and body the authApi
\* function passes on, and the header the interceptor adds.
Request(endpoint, body) ==
    [endpoint |-> endpoint, bearer |-> BearerNow, body |-> body]

\* Nothing has been sent yet.
NoRequest == [endpoint |-> None, bearer |-> None, body |-> NoCredentials]

\* An invocation of login / signup / logout suspended at an await: its
\* arguments, the await it is at, and the requests it has issued so far.
Call(kind, pc, cred, nSignin, nSignup, nSignout) ==
    [kind |-> kind, pc |-> pc, cred |-> cred,
     nSignin |-> nSignin, nSignup |-> nSignup, nSignout |-> nSignout]

\* No store promise has settled yet.
NoneSettled ==
    [kind |-> None, result |-> None, error |-> None,
     loginResult |-> None, loginError |-> None,
     nSignin |-> 0, nSignup |-> 0, nSignout |-> 0]

\* The invocations in flight, and those of login / signup among them.
InFlight == BagToSet(calls)
AuthInFlight == {c \in InFlight : c.kind \in {"login", "signup"}}

\* Another invocation can be started.
CanStart == BagCardinality(calls) < MaxInFlight

Mounted == validation.pc # "unmounted"

\* ------------------------------------------------- the handlers' effects

\* The part of the state the store's handlers write.
Store == [user |-> user, token |-> token, cookie |-> cookie, isLoading |-> isLoading]

\* login, lines 75-81: the condition under which the sign-in (or, in signup,
\* the sign-up) payload is taken as a success.
Accepts(r) == r.status = "ok" /\ Truthy(r.user) /\ Truthy(r.access_token)

\* validateToken, line 52: the session payload carries a user.
SessionAccepts(r) == r.status = "ok" /\ Truthy(r.user)

\* Variant of SessionSettle: the cookie is removed on the success path too.
SessionSettleDropsCookie(s, r) ==
    IF r.status = "ok" /\ Truthy(r.user)
    THEN [store |-> [s EXCEPT !.user = r.user, !.cookie = [value |-> None, expires |-> 0]],
          result |-> "resolved", error |-> None]
    ELSE [store |-> [s EXCEPT !.cookie = [value |-> None, expires |-> 0], !.token = None],
          result |-> "resolved", error |-> None]

\* Variant of SessionSettle: the failure paths forget Cookies.remove.
SessionSettleKeepsCookie(s, r) ==
    IF r.status = "ok" /\ Truthy(r.user)
    THEN [store |-> [s EXCEPT !.user = r.user],
          result |-> "resolved", error |-> None]
    ELSE [store |-> [s EXCEPT !.token = None],
          result |-> "resolved", error |-> None]

\* validateToken once authApi.session() has settled with r, from store s:
\* setUser on a payload with a user; Cookies.remove and setToken(null) on a
\* payload without one and in the catch block.  The catch block swallows
\* the error, so the promise of validateToken() resolves either way.
SessionSettle(s, r) ==
    IF SessionAccepts(r)
    THEN [store |-> [s EXCEPT !.user = r.user],
          result |-> "resolved", error |-> None]
    ELSE [store |-> [s EXCEPT !.cookie = NoCookie, !.token = None],
          result |-> "resolved", error |-> None]

\* Variant of LoginSettle: no finally block, isLoading is reset on success only.
LoginSettleNoFinally(s, r) ==
    IF Accepts(r)
    THEN [store |-> [user |-> r.user, token |-> r.access_token,
                     cookie |-> CookieOf(r.access_token), isLoading |-> FALSE],
          result |-> "resolved", error |-> None]
    ELSE [store |-> s,
          result |-> "rejected", error |-> InvalidCredentials]

\* Variant of LoginSettle: a failed login signs the current user out.
LoginSettleSignsOut(s, r) ==
    IF Accepts(r)
    THEN [store |-> [user |-> r.user, token |-> r.access_token,
                     cookie |-> CookieOf(r.access_token), isLoading |-> FALSE],
          result |-> "resolved", error |-> None]
    ELSE [store |-> [user |-> None, token |-> None, cookie |-> NoCookie,
                     isLoading |-> FALSE],
          result |-> "rejected", error |-> InvalidCredentials]

\* Variant of LoginSettle: the caught error's own message is passed on, so a
\* transport failure reads differently from a rejection.
LoginSettleLeaksCause(s, r) ==
    IF Accepts(r)
    THEN [store |-> [user |-> r.user, token |-> r.access_token,
                     cookie |-> CookieOf(r.access_token), isLoading |-> FALSE],
          result |-> "resolved", error |-> None]
    ELSE [store |-> [s EXCEPT !.isLoading = FALSE],
          result |-> "rejected",
          error |-> IF r.status = "transport" THEN "Network Error"
                    ELSE InvalidCredentials]

\* login once authApi.signin() has settled with r, from store s.  The outcome
\* is the store it leaves and how the returned promise settles.
LoginSettle(s, r) ==
    IF Accepts(r)
    THEN [store |-> [user |-> r.user, token |-> r.access_token,
                     cookie |-> CookieOf(r.access_token), isLoading |-> FALSE],
          result |-> "resolved", error |-> None]
    ELSE [store |-> [s EXCEPT !.isLoading = FALSE],
          result |-> "rejected", error |-> InvalidCredentials]

\* Variant of SignupSettle: a failed sign-up request is followed by the
\* sign-in attempt too.
SignupSettleRetries(s, r) ==
    IF Accepts(r)
    THEN [store |-> [user |-> r.user, token |-> r.access_token,
                     cookie |-> CookieOf(r.access_token), isLoading |-> FALSE],
          result |-> "resolved", error |-> None]
    ELSE [store |-> [s EXCEPT !.isLoading = TRUE],
          result |-> "fallback", error |-> None]

\* signup once authApi.signup() has settled with r, from store s: the pair
\* is stored, or login is invoked (result "fallback": login has run up to its
\* await, isLoading set by its first line), or the call is rejected.
SignupSettle(s, r) ==
    IF Accepts(r)
    THEN [store |-> [user |-> r.user, token |-> r.access_token,
                     cookie |-> CookieOf(r.access_token), isLoading |-> FALSE],
          result |-> "resolved", error |-> None]
    ELSE IF r.status = "ok"
    THEN [store |-> [s EXCEPT !.isLoading = TRUE],
          result |-> "fallback", error |-> None]
    ELSE [store |-> [s EXCEPT !.isLoading = FALSE],
          result |-> "rejected", error |-> SignupFailed]

\* signup once the login it awaits (line 100) has settled: login's outcome,
\* its rejection caught and replaced (lines 102-104), then signup's finally.
FallbackSettle(s, r) ==
    LET l == LoginSettle(s, r)
    IN  IF l.result = "resolved"
        THEN [l EXCEPT !.store.isLoading = FALSE]
        ELSE [store |-> [l.store EXCEPT !.isLoading = FALSE],
              result |-> "rejected", error |-> SignupFailed]

\* A logout that clears the session only when the sign-out call succeeded.
LogoutSettleOnSuccessOnly(s, r) ==
    IF r = "ok"
    THEN [s EXCEPT !.cookie = NoCookie, !.token = None, !.user = None]
    ELSE s

\* Variant of LogoutSettle: the finally block forgets setToken(null).
LogoutSettleKeepsToken(s, r) ==
    [s EXCEPT !.cookie = NoCookie, !.user = None]

\* logout once authApi.signout() has settled, with success or in the catch:
\* the finally block clears the cookie, the token and the user.
LogoutSettle(s, r) ==
    [s EXCEPT !.cookie = NoCookie, !.token = None, !.user = None]

\* Commit a handler's store to the React state and the cookie jar.
Commit(s) ==
    /\ user' = s.user
    /\ token' = s.token
    /\ cookie' = s.cookie
    /\ isLoading' = s.isLoading

\* --------------------------------------------------------------- actions

\* No view has called anything yet.
NoDeps == <<>>
NoPage == [name |-> None, deps |-> NoDeps]
NoText == <<>>
NoForm ==
    [owner |-> None, title |-> NoText, description |-> NoText,
     completed |-> FALSE, loading |-> FALSE, busy |-> FALSE, alert |-> None,
     task |-> None, error |-> None]
NoFetch ==
    [method |-> None, url |-> None, authorization |-> None,
     body |-> [empty |-> TRUE]]
\* The stored task: its completed flag, the flag when the view first showed
\* it, the number of complete-toggle requests applied since, and whether a
\* delete request has removed it.
StoredTask(completed) ==
    [completed |-> completed, original |-> completed, applied |-> 0,
     deleted |-> FALSE]
\* useState<Task[]>([]), useState(''), useState('all') (dashboard/page.tsx
\* lines 17-22) and the filteredTasks of the first render.
NoListing ==
    [tasks |-> <<>>, searchQuery |-> NoText, filter |-> "all",
     filteredTasks |-> <<>>]

NoViews ==
    /\ tcalls = EmptyBag /\ hcalls = EmptyBag
    /\ page = NoPage /\ form = NoForm /\ fetched = NoFetch
    /\ backend = StoredTask(FALSE)
    /\ listing = NoListing

\* useState initial values (lines 40-42); the cookie jar holds whatever an
\* earlier visit left: nothing, or a token written by an earlier sign-in.
Init ==
    /\ user = None
    /\ token = None
    /\ isLoading = TRUE
    /\ cookie \in {NoCookie} \cup {CookieOf(t) : t \in StoredTokens}
    /\ validation = [pc |-> "unmounted", stored |-> None, bearer |-> None,
                     outcome |-> None, result |-> None, error |-> None,
                     sent |-> 0]
    /\ calls = EmptyBag
    /\ settled = NoneSettled
    /\ wire = NoRequest
    /\ touched = FALSE
    /\ NoViews

\* Variant of ShouldValidate: the session is introspected on every mount.
ShouldValidateAlways(storedToken) == TRUE

\* The mount effect, line 46: a stored token is validated.
ShouldValidate(storedToken) == Truthy(storedToken)

\* The mount effect (lines 44-68).  With a stored token: setToken, then
\* validateToken() runs up to its await (the session request is issued), then
\* setIsLoading(false).  Without one: setIsLoading(false) only.
Initialize ==
    /\ validation.pc = "unmounted"
    /\ LET storedToken == CookiesGet
       IN  IF ShouldValidate(storedToken)
           THEN /\ token' = storedToken
                /\ validation' = [validation EXCEPT
                                    !.pc = "awaitSession",
                                    !.stored = storedToken,
                                    !.bearer = BearerNow,
                                    !.result = "pending",
                                    !.sent = @ + 1]
                /\ wire' = Request("/api/auth/session", NoCredentials)
           ELSE /\ token' = token
                /\ validation' = [validation EXCEPT !.pc = "skipped"]
                /\ wire' = wire
    /\ isLoading' = FALSE
    /\ UNCHANGED <<user, cookie, calls, settled, touched, viewVars>>

\* authApi.session() settles with r and validateToken resumes (lines 52-63).
SessionResponse(r) ==
    /\ validation.pc = "awaitSession"
    /\ LET out == SessionSettle(Store, r)
       IN  /\ Commit(out.store)
           /\ validation' = [validation EXCEPT
                               !.pc = "done",
                               !.outcome = IF SessionAccepts(r) THEN "user" ELSE "cleared",
                               !.result = out.result,
                               !.error = out.error]
    /\ UNCHANGED <<calls, settled, wire, touched, viewVars>>

\* login(email, password) is called: setIsLoading(true) and the sign-in
\* request (lines 71-73).
LoginStart(cred) ==
    /\ Mounted
    /\ CanStart
    /\ isLoading' = TRUE
    /\ calls' = calls (+) SetToBag({Call("login", "awaitSignin", cred, 1, 0, 0)})
    /\ wire' = Request("/api/auth/signin", cred)
    /\ touched' = TRUE
    /\ UNCHANGED <<user, token, cookie, validation, settled, viewVars>>

\* authApi.signin() settles with r and login resumes (lines 75-87).
SigninResponse(c, r) ==
    /\ c \in InFlight
    /\ c.kind = "login"
    /\ c.pc = "awaitSignin"
    /\ LET out == LoginSettle(Store, r)
       IN  /\ Commit(out.store)
           /\ settled' = [kind |-> "login",
                          result |-> out.result, error |-> out.error,
                          loginResult |-> out.result, loginError |-> out.error,
                          nSignin |-> c.nSignin, nSignup |-> c.nSignup,
                          nSignout |-> c.nSignout]
    /\ calls' = calls (-) SetToBag({c})
    /\ UNCHANGED <<validation, wire, touched, viewVars>>

\* signup(email, password) is called: setIsLoading(true) and the sign-up
\* request (lines 91-93).
SignupStart(cred) ==
    /\ Mounted
    /\ CanStart
    /\ isLoading' = TRUE
    /\ calls' = calls (+) SetToBag({Call("signup", "awaitSignup", cred, 0, 1, 0)})
    /\ wire' = Request("/api/auth/signup", cred)
    /\ touched' = TRUE
    /\ UNCHANGED <<user, token, cookie, validation, settled, viewVars>>

\* The login(email, password) that signup falls back to (line 100), run up
\* to its await: the invocation c of signup now awaits its sign-in request.
FallbackLogin(c) ==
    Call("signup", "awaitFallback", c.cred, c.nSignin + 1, c.nSignup, c.nSignout)

\* Variant of FallbackRequest: the fallback passes the email only.
FallbackRequestNoPassword(c) ==
    Request("/api/auth/signin", [c.cred EXCEPT !.password = None])

\* The sign-in request that login issues for it.
FallbackRequest(c) == Request("/api/auth/signin", c.cred)

\* authApi.signup() settles with r and signup resumes (lines 94-107); on a
\* payload without the pair it calls login(email, password).
SignupResponse(c, r) ==
    /\ c \in InFlight
    /\ c.kind = "signup"
    /\ c.pc = "awaitSignup"
    /\ LET out == SignupSettle(Store, r)
       IN  /\ Commit(out.store)
           /\ IF out.result = "fallback"
              THEN /\ calls' = (calls (-) SetToBag({c})) (+) SetToBag({FallbackLogin(c)})
                   /\ wire' = FallbackRequest(c)
                   /\ settled' = settled
              ELSE /\ calls' = calls (-) SetToBag({c})
                   /\ wire' = wire
                   /\ settled' = [kind |-> "signup",
                                  result |-> out.result, error |-> out.error,
                                  loginResult |-> None, loginError |-> None,
                                  nSignin |-> c.nSignin, nSignup |-> c.nSignup,
                                  nSignout |-> c.nSignout]
    /\ UNCHANGED <<validation, touched, viewVars>>

\* The sign-in request of signup's fallback login settles with r: login
\* resumes (lines 75-87), then signup (lines 102-107).
FallbackResponse(c, r) ==
    /\ c \in InFlight
    /\ c.kind = "signup"
    /\ c.pc = "awaitFallback"
    /\ LET inner == LoginSettle(Store, r)
           out == FallbackSettle(Store, r)
       IN  /\ Commit(out.store)
           /\ settled' = [kind |-> "signup",
                          result |-> out.result, error |-> out.error,
                          loginResult |-> inner.result, loginError |-> inner.error,
                          nSignin |-> c.nSignin, nSignup |-> c.nSignup,
                          nSignout |-> c.nSignout]
    /\ calls' = calls (-) SetToBag({c})
    /\ UNCHANGED <<validation, wire, touched, viewVars>>

\* logout() is called: the sign-out request (lines 111-112).
LogoutStart ==
    /\ Mounted
    /\ CanStart
    /\ calls' = calls (+) SetToBag({Call("logout", "awaitSignout", NoCredentials,
                                         0, 0, 1)})
    /\ wire' = Request("/api/auth/signout", NoCredentials)
    /\ touched' = TRUE
    /\ UNCHANGED <<user, token, isLoading, cookie, validation, settled, viewVars>>

\* authApi.signout() settles with r and logout resumes (lines 113-119); the
\* promise logout returned resolves either way.
SignoutResponse(c, r) ==
    /\ c \in InFlight
    /\ c.kind = "logout"
    /\ c.pc = "awaitSignout"
    /\ Commit(LogoutSettle(Store, r))
    /\ settled' = [kind |-> "logout", result |-> "resolved", error |-> None,
                   loginResult |-> None, loginError |-> None,
                   nSignin |-> c.nSignin, nSignup |-> c.nSignup,
                   nSignout |-> c.nSignout]
    /\ calls' = calls (-) SetToBag({c})
    /\ UNCHANGED <<validation, wire, touched, viewVars>>

Next ==
    \/ Initialize
    \/ \E r \in SessionResponses : SessionResponse(r)
    \/ \E cred \in Credentials : LoginStart(cred)
    \/ \E c \in InFlight, r \in AuthResponses : SigninResponse(c, r)
    \/ \E cred \in Credentials : SignupStart(cred)
    \/ \E c \in InFlight, r \in AuthResponses : SignupResponse(c, r)
    \/ \E c \in InFlight, r \in AuthResponses : FallbackResponse(c, r)
    \/ LogoutStart
    \/ \E c \in InFlight, r \in SignoutResponses : SignoutResponse(c, r)

Spec == Init /\ [][Next]_vars

\* ---------------------------------------------------------------- taskApi

TaskIds == {"k1"}

\* A get or a delete sends no body.
NoBody == [empty |-> TRUE]

\* What a view passes as the data of createTask / updateTask.
TaskData == {[title |-> "a", completed |-> FALSE]}

\* api.get / api.post / api.put / api.delete / api.patch: the request leaves
\* through the interceptor, which adds the header.
TaskRequest(method, path, data) ==
    [method |-> method, endpoint |-> path, bearer |-> BearerNow, body |-> data]

getTasks(userId) == TaskRequest("GET", "/api/" \o userId \o "/tasks", NoBody)

createTask(userId, data) ==
    TaskRequest("POST", "/api/" \o userId \o "/tasks", data)

getTask(userId, taskId) ==
    TaskRequest("GET", "/api/" \o userId \o "/tasks/" \o taskId, NoBody)

updateTask(userId, taskId, data) ==
    TaskRequest("PUT", "/api/" \o userId \o "/tasks/" \o taskId, data)

deleteTask(userId, taskId) ==
    TaskRequest("DELETE", "/api/" \o userId \o "/tasks/" \o taskId, NoBody)

toggleComplete(userId, taskId, completed) ==
    TaskRequest("PATCH", "/api/" \o userId \o "/tasks/" \o taskId \o "/complete",
                [completed |-> completed])

markTaskComplete(userId, taskId) ==
    TaskRequest("PATCH", "/api/" \o userId \o "/tasks/" \o taskId \o "/complete",
                [completed |-> TRUE])

\* The calls of taskApi a view can make for user id u, each with the request
\* it issues.
TaskApiCalls(u) ==
    {[op |-> "getTasks", req |-> getTasks(u)]}
    \cup {[op |-> "createTask", req |-> createTask(u, d)] : d \in TaskData}
    \cup {[op |-> "getTask", req |-> getTask(u, k)] : k \in TaskIds}
    \cup {[op |-> "updateTask", req |-> updateTask(u, k, d)] :
             k \in TaskIds, d \in TaskData}
    \cup {[op |-> "deleteTask", req |-> deleteTask(u, k)] : k \in TaskIds}
    \cup {[op |-> "toggleComplete", req |-> toggleComplete(u, k, b)] :
             k \in TaskIds, b \in BOOLEAN}
    \cup {[op |-> "markTaskComplete", req |-> markTaskComplete(u, k)] :
             k \in TaskIds}

\* What a task request may settle with; axios rejects outside 2xx.
TaskResponses == {"ok", "401", "500", "transport"}

\* The promise of a request, held by the handler named: one request was
\* issued for it.
Promise(by) == [by |-> by, nRequests |-> 1]

\* The promise of a complete-toggle request that carries { completed }.
TogglePromise(by, completed) ==
    [by |-> by, nRequests |-> 1, completed |-> completed]

TasksInFlight == BagToSet(tcalls)

\* Another promise (of the store or of taskApi) can be outstanding.
CanCall == BagCardinality(calls) + BagCardinality(tcalls) < MaxInFlight

\* A view calls a taskApi function with the signed-in user's id (every view
\* handler returns early without a user): the request is issued at once, and
\* the returned promise is outstanding.
TaskCall(a) ==
    /\ Mounted
    /\ user # None
    /\ CanCall
    /\ a \in TaskApiCalls(user)
    /\ wire' = a.req
    /\ tcalls' = tcalls (+) SetToBag({Promise("view")})
    /\ UNCHANGED <<user, token, isLoading, cookie, validation, calls, settled,
                   touched, hcalls, page, form, fetched, backend, listing>>

\* The request of taskApi promise c settles with r: the promise resolves or
\* rejects, once, and the Session Store is not involved.
TaskSettle(c, r) ==
    /\ c \in TasksInFlight
    /\ c.by = "view"
    /\ tcalls' = tcalls (-) SetToBag({c})
    /\ UNCHANGED <<storeVars, hcalls, page, form, fetched, backend, listing>>

ClientNext ==
    \/ Next
    \/ \E u \in Users : \E a \in TaskApiCalls(u) : TaskCall(a)
    \/ \E c \in TasksInFlight, r \in TaskResponses : TaskSettle(c, r)

\* The Session Store together with views calling taskApi.
ClientSpec == Init /\ [][ClientNext]_vars

\* ------------------------------------------------------- the auth module

\* The helpers exported by lib/auth (signIn.email, signUp.email, signOut):
\* they call authApi and write the cookie themselves, without the store.
\* Their callers are event handlers of a mounted page.

HelpersInFlight == BagToSet(hcalls)

CanHelp ==
    Mounted /\ BagCardinality(calls) + BagCardinality(hcalls) < MaxInFlight

\* What a settled helper promise hands its caller: the helpers never reject.
HelperReturned(kind, message) ==
    [kind |-> kind, result |-> "resolved", error |-> message,
     loginResult |-> None, loginError |-> None,
     nSignin |-> 0, nSignup |-> 0, nSignout |-> 0]

\* signIn.email({ email, password }) up to its await.
SignInEmailStart(cred) ==
    /\ CanHelp
    /\ hcalls' = hcalls (+) SetToBag({[kind |-> "signIn.email", cred |-> cred]})
    /\ wire' = Request("/api/auth/signin", cred)
    /\ UNCHANGED <<user, token, isLoading, cookie, validation, calls, settled,
                   touched, tcalls, page, form, fetched, backend, listing>>

\* signUp.email({ email, password }) up to its await.
SignUpEmailStart(cred) ==
    /\ CanHelp
    /\ hcalls' = hcalls (+) SetToBag({[kind |-> "signUp.email", cred |-> cred]})
    /\ wire' = Request("/api/auth/signup", cred)
    /\ UNCHANGED <<user, token, isLoading, cookie, validation, calls, settled,
                   touched, tcalls, page, form, fetched, backend, listing>>

\* signIn.email / signUp.email resume with r: on a payload with user and
\* access_token the cookie is written (lines 27, 54) and the payload returned;
\* otherwise an error object is returned, the cookie untouched.
EmailResponse(h, r) ==
    /\ h \in HelpersInFlight
    /\ h.kind \in {"signIn.email", "signUp.email"}
    /\ hcalls' = hcalls (-) SetToBag({h})
    /\ IF Accepts(r)
       THEN /\ cookie' = CookieOf(r.access_token)
            /\ settled' = HelperReturned(h.kind, None)
       ELSE /\ cookie' = cookie
            /\ settled' = HelperReturned(h.kind,
                  IF r.status = "ok" THEN "No user data received"
                  ELSE IF h.kind = "signIn.email" THEN InvalidCredentials
                  ELSE SignupFailed)
    /\ UNCHANGED <<user, token, isLoading, validation, calls, wire, touched,
                   tcalls, page, form, fetched, backend, listing>>

\* signOut() up to its await.
SignOutStart ==
    /\ CanHelp
    /\ hcalls' = hcalls (+) SetToBag({[kind |-> "signOut", cred |-> NoCredentials]})
    /\ wire' = Request("/api/auth/signout", NoCredentials)
    /\ UNCHANGED <<user, token, isLoading, cookie, validation, calls, settled,
                   touched, tcalls, page, form, fetched, backend, listing>>

\* signOut resumes with r: the failure is logged, and the finally block
\* removes the cookie (line 81).
SignOutResponse(h, r) ==
    /\ h \in HelpersInFlight
    /\ h.kind = "signOut"
    /\ hcalls' = hcalls (-) SetToBag({h})
    /\ cookie' = NoCookie
    /\ settled' = HelperReturned("signOut", None)
    /\ UNCHANGED <<user, token, isLoading, validation, calls, wire, touched,
                   tcalls, page, form, fetched, backend, listing>>

HelperNext ==
    \/ Initialize
    \/ \E r \in SessionResponses : SessionResponse(r)
    \/ \E cred \in Credentials : LoginStart(cred)
    \/ \E c \in InFlight, r \in AuthResponses : SigninResponse(c, r)
    \/ LogoutStart
    \/ \E c \in InFlight, r \in SignoutResponses : SignoutResponse(c, r)
    \/ \E cred \in Credentials : SignInEmailStart(cred)
    \/ \E cred \in Credentials : SignUpEmailStart(cred)
    \/ \E h \in HelpersInFlight, r \in AuthResponses : EmailResponse(h, r)
    \/ SignOutStart
    \/ \E h \in HelpersInFlight, r \in SignoutResponses : SignOutResponse(h, r)

\* The Session Store's initialize, login and logout together with callers of
\* the auth module's helpers.
HelperSpec == Init /\ [][HelperNext]_vars

\* ------------------------------------------------------ protected views

\* The pages behind the sign-in, and those among them whose redirect effect
\* looks at the store's isLoading (all but the create and edit pages).
Protected ==
    {"dashboard", "analytics", "completed", "settings", "chat", "create", "edit"}
WaitsForStore == {"dashboard", "analytics", "completed", "settings", "chat"}

SignInPage == [name |-> "/auth/signin", deps |-> NoDeps]

\* The dependency array of the page's redirect effect, as of this render.
Deps(v) == IF v \in WaitsForStore THEN <<user, isLoading>> ELSE <<user>>

\* React runs the effect after the first render and after every render in
\* which a dependency has changed.
EffectPending == page.name \in Protected /\ page.deps # Deps(page.name)

\* The useState initial values of page v.
InitialForm(v) ==
    [NoForm EXCEPT !.owner = v,
                   !.loading = v \in {"dashboard", "analytics", "completed", "edit"}]

\* What page v returns from its render: the spinner, null, or its content.
Shows(v) ==
    IF v \in {"dashboard", "analytics", "completed"}
    THEN IF isLoading \/ form.loading THEN "placeholder"
         ELSE IF user = None THEN "nothing" ELSE "content"
    ELSE IF v \in {"settings", "chat"}
    THEN IF isLoading THEN "placeholder"
         ELSE IF user = None THEN "nothing" ELSE "content"
    ELSE IF v = "create"
    THEN IF user = None THEN "nothing" ELSE "content"
    ELSE IF user = None THEN "nothing"
         ELSE IF form.loading THEN "placeholder" ELSE "content"

\* The router shows protected page v: on the first load of the application
\* (with the provider, whose mount effect runs after the page's) or later.
Navigate(v) ==
    /\ v \in Protected
    /\ page' = [name |-> v, deps |-> NoDeps]
    /\ form' = InitialForm(v)
    /\ UNCHANGED <<storeVars, tcalls, hcalls, fetched, backend, listing>>

\* The redirect effect of the dashboard, analytics, completed, settings and
\* chat pages: if (!authLoading && !user) router.push('/auth/signin').
RedirectEffect ==
    /\ page.name \in WaitsForStore
    /\ EffectPending
    /\ IF ~isLoading /\ user = None
       THEN page' = SignInPage /\ form' = NoForm
       ELSE page' = [page EXCEPT !.deps = Deps(page.name)] /\ form' = form
    /\ UNCHANGED <<storeVars, tcalls, hcalls, fetched, backend, listing>>

\* The effect of the create page: if (!user) router.push('/auth/signin').
CreateTaskEffect ==
    /\ page.name = "create"
    /\ EffectPending
    /\ IF user = None
       THEN page' = SignInPage /\ form' = NoForm
       ELSE page' = [page EXCEPT !.deps = Deps(page.name)] /\ form' = form
    /\ UNCHANGED <<storeVars, tcalls, hcalls, fetched, backend, listing>>

\* The effect of the edit page: the same redirect, and with a user
\* fetchTask() runs up to its await of taskApi.getTask(user.id, taskId).
EditTaskEffect ==
    /\ page.name = "edit"
    /\ EffectPending
    /\ IF user = None
       THEN /\ page' = SignInPage /\ form' = NoForm
            /\ UNCHANGED <<wire, tcalls>>
       ELSE /\ CanCall
            /\ page' = [page EXCEPT !.deps = Deps(page.name)] /\ form' = form
            /\ \E k \in TaskIds : wire' = getTask(user, k)
            /\ tcalls' = tcalls (+) SetToBag({Promise("fetchTask")})
    /\ UNCHANGED <<user, token, isLoading, cookie, validation, calls, settled,
                   touched, hcalls, fetched, backend, listing>>

\* fetchTask resumes with r (lines 63-72): the task and the form fields are
\* set from the response, or the error alert; the finally block ends the
\* page's loading state.  Nothing is set once the page is gone.
EditTaskLoaded(c, r) ==
    /\ c \in TasksInFlight
    /\ c.by = "fetchTask"
    /\ r = "ok" => ~backend.deleted
    /\ tcalls' = tcalls (-) SetToBag({c})
    /\ form' = IF page.name # "edit" THEN form
               ELSE IF r = "ok"
               THEN [form EXCEPT !.task = "k1", !.title = <<"a">>,
                                 !.description = NoText,
                                 !.completed = backend.completed,
                                 !.loading = FALSE]
               ELSE [form EXCEPT !.alert = "error", !.loading = FALSE]
    /\ UNCHANGED <<storeVars, hcalls, page, fetched, backend, listing>>

\* Effects are flushed before anything else is handled.
GuardNext ==
    \/ \E v \in Protected : ~EffectPending /\ Navigate(v)
    \/ RedirectEffect
    \/ CreateTaskEffect
    \/ EditTaskEffect
    \/ \E c \in TasksInFlight, r \in TaskResponses :
          ~EffectPending /\ EditTaskLoaded(c, r)
    \/ ~EffectPending /\ Initialize
    \/ \E r \in SessionResponses : ~EffectPending /\ SessionResponse(r)
    \/ \E cred \in Credentials : ~EffectPending /\ LoginStart(cred)
    \/ \E c \in InFlight, r \in AuthResponses :
          ~EffectPending /\ SigninResponse(c, r)
    \/ ~EffectPending /\ LogoutStart
    \/ \E c \in InFlight, r \in SignoutResponses :
          ~EffectPending /\ SignoutResponse(c, r)

\* The Session Store's initialize, login and logout under the protected pages.
GuardSpec == Init /\ [][GuardNext]_vars

\* ------------------------------------------------------ task components

\* Text is a sequence of characters.  What a user may have typed into a
\* title or a description field.
TypedTitles == {NoText, <<" ">>, <<"a">>, <<" ", "a", " ">>}
TypedDescriptions == {NoText, <<" ">>, <<"d">>}

\* String.prototype.trim().
trim(text) ==
    LET RECURSIVE TrimStart(_), TrimEnd(_)
        TrimStart(t) ==
            IF t # <<>> /\ Head(t) = " " THEN TrimStart(Tail(t)) ELSE t
        TrimEnd(t) ==
            IF t # <<>> /\ t[Len(t)] = " "
            THEN TrimEnd(SubSeq(t, 1, Len(t) - 1)) ELSE t
    IN  TrimEnd(TrimStart(text))

\* Variant of TaskPayload: an empty description is sent as the empty string.
TaskPayloadWithDescription(title, description, completed) ==
    [title |-> trim(title), description |-> trim(description),
     completed |-> completed]

\* JSON.stringify of { title: title.trim(), description: description.trim()
\* || undefined, completed }: a property whose value is undefined is left out.
TaskPayload(title, description, completed) ==
    IF trim(description) = NoText
    THEN [title |-> trim(title), completed |-> completed]
    ELSE [title |-> trim(title), description |-> trim(description),
          completed |-> completed]

\* JSON.stringify of TaskList's updateData: title and description only.
EditPayload(title, description) ==
    IF trim(description) = NoText
    THEN [title |-> trim(title)]
    ELSE [title |-> trim(title), description |-> trim(description)]

\* The store after a start-up that found the stored token t valid for user u.
SignedIn(u, t) ==
    /\ user = u /\ token = t /\ cookie = CookieOf(t) /\ isLoading = FALSE
    /\ validation = [pc |-> "done", stored |-> t, bearer |-> t,
                     outcome |-> "user", result |-> "resolved", error |-> None,
                     sent |-> 1]
    /\ calls = EmptyBag /\ settled = NoneSettled /\ touched = FALSE
    /\ wire = [endpoint |-> "/api/auth/session", bearer |-> t,
               body |-> NoCredentials]

\* The store after a start-up without a stored token.
SignedOut ==
    /\ user = None /\ token = None /\ cookie = NoCookie /\ isLoading = FALSE
    /\ validation = [pc |-> "skipped", stored |-> None, bearer |-> None,
                     outcome |-> None, result |-> None, error |-> None,
                     sent |-> 0]
    /\ calls = EmptyBag /\ settled = NoneSettled /\ touched = FALSE
    /\ wire = NoRequest

TaskInit ==
    /\ SignedOut \/ \E u \in Users, t \in StoredTokens : SignedIn(u, t)
    /\ tcalls = EmptyBag /\ hcalls = EmptyBag
    /\ page = NoPage /\ form = NoForm /\ fetched = NoFetch
    /\ \E b \in BOOLEAN : backend = StoredTask(b)
    /\ listing = NoListing

\* What a request issued with window.fetch may settle with: fetch resolves
\* for every status (response.ok tells) and rejects on a transport failure.
Ok(r) == r = "ok"

Components == {"TaskForm", "TaskList"}

\* The component is mounted (or remounted) with its initial state.
Use(owner) ==
    /\ owner \in Components
    /\ tcalls = EmptyBag
    /\ form' = InitialForm(owner)
    /\ page' = NoPage
    /\ UNCHANGED <<storeVars, tcalls, hcalls, fetched, backend, listing>>

\* onChange of the title and description inputs: setTitle / setDescription
\* (setEditTitle / setEditDescription in TaskList).  The inputs of the create
\* and edit pages are disabled while a submission is in flight.
SetTitle(t) ==
    /\ form.owner \in Components \cup {"create", "edit"}
    /\ form.owner \in {"create", "edit"} => ~form.busy /\ ~form.loading
    /\ form' = [form EXCEPT !.title = t]
    /\ UNCHANGED <<storeVars, tcalls, hcalls, page, fetched, backend, listing>>

SetDescription(d) ==
    /\ form.owner \in Components \cup {"create", "edit"}
    /\ form.owner \in {"create", "edit"} => ~form.busy /\ ~form.loading
    /\ form' = [form EXCEPT !.description = d]
    /\ UNCHANGED <<storeVars, tcalls, hcalls, page, fetched, backend, listing>>

\* Variant of CanSubmit: the button tests the title as typed.
CanSubmitUntrimmed == ~form.busy /\ form.title # NoText

\* The submit / save button: disabled={loading || !title.trim()}.
CanSubmit == ~form.busy /\ trim(form.title) # NoText

\* The Authorization header TaskList builds from useSession():
\* `Bearer ${session?.session?.token}`.
SessionBearer ==
    "Bearer " \o (IF Truthy(CookiesGet) THEN CookiesGet ELSE "undefined")

\* TaskForm.handleSubmit up to its await (lines 15-34).
TaskFormSubmit ==
    /\ form.owner = "TaskForm"
    /\ CanSubmit
    /\ trim(form.title) # NoText
    /\ CanCall
    /\ form' = [form EXCEPT !.busy = TRUE]
    /\ fetched' = [method |-> "POST", url |-> "/api/tasks",
                   authorization |-> None,
                   body |-> TaskPayload(form.title, form.description, FALSE)]
    /\ tcalls' = tcalls (+) SetToBag({Promise("TaskForm")})
    /\ UNCHANGED <<storeVars, hcalls, page, backend, listing>>

\* TaskList.handleSaveEdit(taskId) up to its await (lines 30-45).
ListSaveEdit(k) ==
    /\ form.owner = "TaskList"
    /\ CanSubmit
    /\ CanCall
    /\ form' = [form EXCEPT !.busy = TRUE]
    /\ fetched' = [method |-> "PUT", url |-> "/api/tasks/" \o k,
                   authorization |-> SessionBearer,
                   body |-> EditPayload(form.title, form.description)]
    /\ tcalls' = tcalls (+) SetToBag({Promise("TaskList.save")})
    /\ UNCHANGED <<storeVars, hcalls, page, backend, listing>>

\* TaskList.handleToggleComplete(taskId) up to its await (lines 60-66).
ListToggle(k) ==
    /\ form.owner = "TaskList"
    /\ ~form.busy
    /\ CanCall
    /\ form' = [form EXCEPT !.busy = TRUE]
    /\ fetched' = [method |-> "PATCH", url |-> "/api/tasks/" \o k \o "/complete",
                   authorization |-> None, body |-> NoBody]
    /\ tcalls' = tcalls (+) SetToBag({Promise("TaskList")})
    /\ UNCHANGED <<storeVars, hcalls, page, backend, listing>>

\* TaskList.handleDelete(taskId), confirmed, up to its await (lines 78-86).
ListDelete(k) ==
    /\ form.owner = "TaskList"
    /\ ~form.busy
    /\ CanCall
    /\ form' = [form EXCEPT !.busy = TRUE]
    /\ fetched' = [method |-> "DELETE", url |-> "/api/tasks/" \o k,
                   authorization |-> None, body |-> NoBody]
    /\ tcalls' = tcalls (+) SetToBag({Promise("TaskList")})
    /\ UNCHANGED <<storeVars, hcalls, page, backend, listing>>

\* A handler of TaskForm or TaskList resumes with r: on success the fields
\* are cleared (not by toggle and delete) and the parent's callback is
\* called; a failure is logged; the finally block ends the loading state.
ComponentDone(c, r) ==
    /\ c \in TasksInFlight
    /\ c.by \in {"TaskForm", "TaskList.save", "TaskList"}
    /\ tcalls' = tcalls (-) SetToBag({c})
    /\ form' = IF Ok(r) /\ c.by # "TaskList"
               THEN [form EXCEPT !.title = NoText, !.description = NoText,
                                 !.busy = FALSE]
               ELSE [form EXCEPT !.busy = FALSE]
    /\ UNCHANGED <<storeVars, hcalls, page, fetched, backend, listing>>

\* onChange of the completed checkbox of the create and edit pages.
SetCompleted(b) ==
    /\ form.owner \in {"create", "edit"}
    /\ ~form.busy /\ ~form.loading
    /\ form' = [form EXCEPT !.completed = b]
    /\ UNCHANGED <<storeVars, tcalls, hcalls, page, fetched, backend, listing>>

\* CreateTask.handleSubmit up to its await (lines 27-39).  The page renders
\* its form for a user only.
CreateTaskSubmit ==
    /\ page.name = "create"
    /\ user # None
    /\ CanSubmit
    /\ CanCall
    /\ form' = [form EXCEPT !.busy = TRUE, !.alert = None]
    /\ wire' = createTask(user, TaskPayload(form.title, form.description,
                                            form.completed))
    /\ tcalls' = tcalls (+) SetToBag({[by |-> "submit", nRequests |-> 1,
                                        task |-> None,
                                        completed |-> form.completed]})
    /\ UNCHANGED <<user, token, isLoading, cookie, validation, calls, settled,
                   touched, hcalls, page, fetched, backend, listing>>

\* EditTask.handleSubmit up to its await (part_001 lines 78-90).
EditTaskSubmit ==
    /\ page.name = "edit"
    /\ user # None /\ form.task # None /\ ~form.loading
    /\ CanSubmit
    /\ CanCall
    /\ form' = [form EXCEPT !.busy = TRUE, !.alert = None]
    /\ wire' = updateTask(user, form.task,
                          TaskPayload(form.title, form.description,
                                      form.completed))
    /\ tcalls' = tcalls (+) SetToBag({[by |-> "submit", nRequests |-> 1,
                                        task |-> form.task,
                                        completed |-> form.completed]})
    /\ UNCHANGED <<user, token, isLoading, cookie, validation, calls, settled,
                   touched, hcalls, page, fetched, backend, listing>>

\* A timer set with setTimeout, not fired yet.
Timer == [by |-> "timer", nRequests |-> 0]

\* handleSubmit of the create or edit page resumes with r: the success alert
\* and the timer that will navigate, or the error alert; the finally block
\* ends the submitting state.
SubmitDone(c, r) ==
    /\ c \in TasksInFlight
    /\ c.by = "submit"
    /\ (r = "ok" /\ c.task # None) => ~backend.deleted
    /\ form' = IF form.owner \notin {"create", "edit"} THEN form
               ELSE [form EXCEPT !.busy = FALSE,
                                 !.alert = IF r = "ok" THEN "success" ELSE "error"]
    /\ tcalls' = IF r = "ok"
                 THEN (tcalls (-) SetToBag({c})) (+) SetToBag({Timer})
                 ELSE tcalls (-) SetToBag({c})
    /\ backend' = IF r = "ok" /\ c.task # None
                  THEN StoredTask(c.completed) ELSE backend
    /\ UNCHANGED <<storeVars, hcalls, page, fetched, listing>>

TaskListPage == [name |-> "/tasks/list", deps |-> NoDeps]

\* The timer fires: router.push('/tasks/list').
TimerFires ==
    /\ Timer \in TasksInFlight
    /\ tcalls' = tcalls (-) SetToBag({Timer})
    /\ page' = TaskListPage
    /\ form' = NoForm
    /\ UNCHANGED <<storeVars, hcalls, fetched, backend, listing>>

\* ---------------------------------------------------------- dashboard

\* The dashboard (and the completed page, which has the same handlers) with
\* the one task of the list: form.task is the task of the list `tasks`
\* holds, none while the list is empty; form.completed its completed flag as
\* fetched; form.error the page's `error`; form.busy the isLoading of its
\* TaskCard.

\* The list the backend answers GET /api/{userId}/tasks with.
ListOf(b) ==
    IF b.deleted THEN [task |-> None, completed |-> FALSE]
    ELSE [task |-> "k1", completed |-> b.completed]

\* The backend has answered a list request: its response, on its way to the
\* view, holds the list as it was then.
Served(c) == "data" \in DOMAIN c

\* The backend reads the list for a getTasks request in flight.
FetchServed(c) ==
    /\ c \in TasksInFlight
    /\ c.by = "fetchTasks"
    /\ ~Served(c)
    /\ tcalls' = (tcalls (-) SetToBag({c}))
                    (+) SetToBag({[by |-> "fetchTasks", nRequests |-> 1,
                                   data |-> ListOf(backend)]})
    /\ UNCHANGED <<storeVars, hcalls, page, form, fetched, backend, listing>>

\* fetchTasks() up to its await, for a user (lines 33-38).
FetchStarted(f) == [f EXCEPT !.loading = TRUE]

\* The page's effects after a render with new dependencies: the redirect,
\* and `if (user) fetchTasks()`.
DashboardEffects ==
    /\ page.name = "dashboard"
    /\ EffectPending
    /\ IF user = None
       THEN /\ IF ~isLoading
               THEN page' = SignInPage /\ form' = NoForm
               ELSE page' = [page EXCEPT !.deps = Deps(page.name)] /\ form' = form
            /\ UNCHANGED <<wire, tcalls>>
       ELSE /\ CanCall
            /\ page' = [page EXCEPT !.deps = Deps(page.name)]
            /\ form' = FetchStarted(form)
            /\ wire' = getTasks(user)
            /\ tcalls' = tcalls (+) SetToBag({Promise("fetchTasks")})
    /\ UNCHANGED <<user, token, isLoading, cookie, validation, calls, settled,
                   touched, hcalls, fetched, backend, listing>>

\* fetchTasks resumes with r (lines 39-45): the list is replaced and the
\* error cleared, or the error set; loading ends.
FetchTasksDone(c, r) ==
    /\ c \in TasksInFlight
    /\ c.by = "fetchTasks"
    /\ r = "ok" => Served(c)
    /\ tcalls' = tcalls (-) SetToBag({c})
    /\ form' = IF r = "ok"
               THEN [form EXCEPT !.task = c.data.task,
                                 !.completed = c.data.completed,
                                 !.error = None, !.loading = FALSE]
               ELSE [form EXCEPT !.error = "error", !.loading = FALSE]
    /\ UNCHANGED <<storeVars, hcalls, page, fetched, backend, listing>>

\* The page shows its table with the task's row: not loading, no error, a
\* user.
TableShown ==
    /\ page.name = "dashboard" /\ ~EffectPending
    /\ ~isLoading /\ ~form.loading /\ user # None
    /\ form.error = None /\ form.task # None

\* The toggle requests the backend has applied or may still apply.
TogglesSoFar ==
    backend.applied
    + BagCardinality(BagOfAll(LAMBDA c : c.by,
                              [c \in {d \in TasksInFlight :
                                        d.by \in {"toggle", "card"}}
                                 |-> CopiesIn(c, tcalls)]))

\* Dashboard.handleToggleComplete(taskId, completed) up to its await (lines
\* 73-76), called by the row's toggle control with the negation of the
\* completed flag the row shows.  Nothing keeps a second call from starting
\* while the first is in flight.
DashboardToggle ==
    /\ TableShown
    /\ CanCall
    /\ TogglesSoFar < MaxToggles
    /\ wire' = toggleComplete(user, form.task, ~form.completed)
    /\ tcalls' = tcalls (+) SetToBag({TogglePromise("toggle", ~form.completed)})
    /\ UNCHANGED <<user, token, isLoading, cookie, validation, calls, settled,
                   touched, hcalls, page, form, fetched, backend, listing>>

\* TaskCard.handleToggleComplete up to its await (TaskForm.tsx lines 113-117):
\* the card's buttons are disabled while its call is in flight.
TaskCardToggle ==
    /\ TableShown
    /\ ~form.busy
    /\ CanCall
    /\ TogglesSoFar < MaxToggles
    /\ form' = [form EXCEPT !.busy = TRUE]
    /\ wire' = toggleComplete(user, form.task, ~form.completed)
    /\ tcalls' = tcalls (+) SetToBag({TogglePromise("card", ~form.completed)})
    /\ UNCHANGED <<user, token, isLoading, cookie, validation, calls, settled,
                   touched, hcalls, page, fetched, backend, listing>>

\* Dashboard.handleTaskDelete(taskId) up to its await (lines 58-61), called by
\* the row's delete control.
DashboardDelete ==
    /\ TableShown
    /\ CanCall
    /\ wire' = deleteTask(user, form.task)
    /\ tcalls' = tcalls (+) SetToBag({Promise("delete")})
    /\ UNCHANGED <<user, token, isLoading, cookie, validation, calls, settled,
                   touched, hcalls, page, form, fetched, backend, listing>>

\* PATCH .../complete with { completed } as the backend applies it: the flag
\* is set to the value supplied.
Patched(b, completed) ==
    [b EXCEPT !.completed = completed, !.applied = @ + 1]

\* DELETE of the task as the backend applies it.
Deleted(b) == [b EXCEPT !.deleted = TRUE]

\* Variant of Refetches: the list is fetched again after a failure too.
RefetchesAlways(r) == TRUE

\* fetchTasks() follows the await inside the try block (lines 61-62, 76-77):
\* it is called when the request succeeded.
Refetches(r) == r = "ok"

\* A toggle or delete handler resumes with r; a request for a task that is
\* gone does not succeed.  On success fetchTasks() is called (by the page's
\* handler, or through the card's onUpdate) and the success alert set; on
\* failure the error alert.  The card's finally ends its isLoading.
ToggleDone(c, r) ==
    /\ c \in TasksInFlight
    /\ c.by \in {"toggle", "card", "delete"}
    /\ r = "ok" => ~backend.deleted
    /\ backend' = IF r # "ok" THEN backend
                  ELSE IF c.by = "delete" THEN Deleted(backend)
                  ELSE Patched(backend, c.completed)
    /\ LET f == [form EXCEPT !.alert = IF r = "ok" THEN "success" ELSE "error",
                             !.busy = IF c.by = "card" THEN FALSE ELSE @]
       IN  IF Refetches(r) /\ user # None
           THEN /\ form' = FetchStarted(f)
                /\ wire' = getTasks(user)
                /\ tcalls' = (tcalls (-) SetToBag({c}))
                                (+) SetToBag({Promise("fetchTasks")})
           ELSE /\ form' = f
                /\ wire' = wire
                /\ tcalls' = tcalls (-) SetToBag({c})
    /\ UNCHANGED <<user, token, isLoading, cookie, validation, calls, settled,
                   touched, hcalls, page, fetched, listing>>

\* The pages and components in use on a signed-in or signed-out session.
TaskNext ==
    \/ \E v \in {"create", "edit", "dashboard"} :
          tcalls = EmptyBag /\ ~EffectPending /\ Navigate(v)
    \/ CreateTaskEffect
    \/ EditTaskEffect
    \/ DashboardEffects
    \/ \E c \in TasksInFlight, r \in TaskResponses : EditTaskLoaded(c, r)
    \/ \E c \in TasksInFlight, r \in TaskResponses : FetchTasksDone(c, r)
    \/ \E owner \in Components : Use(owner)
    \/ \E t \in TypedTitles : SetTitle(t)
    \/ \E d \in TypedDescriptions : SetDescription(d)
    \/ \E b \in BOOLEAN : SetCompleted(b)
    \/ CreateTaskSubmit
    \/ EditTaskSubmit
    \/ \E c \in TasksInFlight, r \in TaskResponses : SubmitDone(c, r)
    \/ TimerFires
    \/ TaskFormSubmit
    \/ \E k \in TaskIds : ListSaveEdit(k)
    \/ \E k \in TaskIds : ListToggle(k)
    \/ \E k \in TaskIds : ListDelete(k)
    \/ \E c \in TasksInFlight, r \in TaskResponses : ComponentDone(c, r)
    \/ \E c \in TasksInFlight : FetchServed(c)
    \/ DashboardToggle
    \/ DashboardDelete
    \/ TaskCardToggle
    \/ \E c \in TasksInFlight, r \in TaskResponses : ToggleDone(c, r)

TaskSpec == TaskInit /\ [][TaskNext]_vars

\* ------------------------------------------------------ dashboard filter

\* The dashboard's list state alone: tasks as fetchTasks stored them, the
\* search box, the status filter, and filteredTasks as each render computes
\* it (lines 97-109).  A task is [title, completed] or, with the optional
\* field, [title, description, completed].

MaxTasks == 2
MaxQuery == 2

Chars == {"a", "b", "A"}

Titles == {<<"a", "B">>, <<"b">>}

Descriptions == {NoText, <<"A">>}

Tasks ==
    [title : Titles, completed : BOOLEAN]
    \cup [title : {<<"b">>}, description : Descriptions, completed : BOOLEAN]

TaskLists == UNION {[1..n -> Tasks] : n \in 0..MaxTasks}

Queries == UNION {[1..n -> Chars] : n \in 0..MaxQuery}

Filters == {"all", "completed", "pending"}

\* String.prototype.toLowerCase on the letters in use.
toLowerCase(text) ==
    [i \in 1..Len(text) |->
        IF text[i] = "A" THEN "a" ELSE IF text[i] = "B" THEN "b" ELSE text[i]]

\* String.prototype.includes: search occurs in text at some position.
includes(text, search) ==
    \E at \in 0..(Len(text) - Len(search)) :
       SubSeq(text, at + 1, at + Len(search)) = search

\* Lines 98-101.
matchesFilter(task, filter) ==
    \/ filter = "all"
    \/ filter = "completed" /\ task.completed
    \/ filter = "pending" /\ ~task.completed

\* Variant of matchesSearch: the title alone is searched.
matchesSearchTitleOnly(task, searchQuery) ==
    includes(toLowerCase(task.title), toLowerCase(searchQuery))

\* Lines 103-105; `task.description &&` is falsy for a missing description
\* and for the empty string.
matchesSearch(task, searchQuery) ==
    \/ includes(toLowerCase(task.title), toLowerCase(searchQuery))
    \/ /\ "description" \in DOMAIN task
       /\ task.description # NoText
       /\ includes(toLowerCase(task.description), toLowerCase(searchQuery))

\* tasks.filter(...) (lines 97-108): the elements are visited in index order
\* and those the callback accepts are appended to the result.
filteredTasks(tasks, filter, searchQuery) ==
    LET RECURSIVE From(_)
        From(i) ==
            IF i > Len(tasks) THEN <<>>
            ELSE IF matchesFilter(tasks[i], filter)
                    /\ matchesSearch(tasks[i], searchQuery)
                 THEN <<tasks[i]>> \o From(i + 1)
                 ELSE From(i + 1)
    IN  From(1)

\* The render after a state update.
Rendered(l) ==
    [l EXCEPT !.filteredTasks = filteredTasks(l.tasks, l.filter, l.searchQuery)]

\* A signed-in session on the dashboard once fetchTasks has stored the list
\* it fetched (setTasks(data), line 39).
FilterInit ==
    /\ \E t \in StoredTokens : SignedIn(CHOOSE u \in Users : TRUE, t)
    /\ tcalls = EmptyBag /\ hcalls = EmptyBag
    /\ page = NoPage /\ form = NoForm /\ fetched = NoFetch
    /\ backend = StoredTask(FALSE)
    /\ \E data \in TaskLists :
          listing = Rendered([NoListing EXCEPT !.tasks = data])

\* handleSearchChange (lines 84-86).
handleSearchChange(query) ==
    /\ listing' = Rendered([listing EXCEPT !.searchQuery = query])
    /\ UNCHANGED <<storeVars, tcalls, hcalls, page, form, fetched, backend>>

\* handleFilterChange (lines 88-90).
handleFilterChange(newFilter) ==
    /\ listing' = Rendered([listing EXCEPT !.filter = newFilter])
    /\ UNCHANGED <<storeVars, tcalls, hcalls, page, form, fetched, backend>>

FilterNext ==
    \/ \E query \in Queries : handleSearchChange(query)
    \/ \E newFilter \in Filters : handleFilterChange(newFilter)

FilterSpec == FilterInit /\ [][FilterNext]_vars

\* ------------------------------------------------------- TaskList rows

\* The TaskList component with two rows.  Its state: editingTask, editTitle
\* and `loading`, the id of the task whose handler set it last, or null.
\* Each pending promise names the task its request is for.

Rows == {"k1", "k2"}

ListForm ==
    [owner |-> "TaskList", editingTask |-> None, editTitle |-> NoText,
     loading |-> None]

ListInit ==
    /\ SignedOut \/ \E u \in Users, t \in StoredTokens : SignedIn(u, t)
    /\ tcalls = EmptyBag /\ hcalls = EmptyBag
    /\ page = NoPage /\ form = ListForm /\ fetched = NoFetch
    /\ backend = StoredTask(FALSE)
    /\ listing = NoListing

\* The promise of a request a row's handler awaits.
RowPromise(by, k) == [by |-> by, nRequests |-> 1, task |-> k]

\* The row shows its toggle, edit and delete buttons, enabled.
RowEnabled(k) == form.editingTask # k /\ form.loading # k

\* handleEdit(task) (lines 18-22); the task's title is "a".
handleEdit(k) ==
    /\ RowEnabled(k)
    /\ form' = [form EXCEPT !.editingTask = k, !.editTitle = <<"a">>]
    /\ UNCHANGED <<storeVars, tcalls, hcalls, page, fetched, backend, listing>>

\* handleCancelEdit (lines 24-28).
handleCancelEdit ==
    /\ form.editingTask # None
    /\ form' = [form EXCEPT !.editingTask = None, !.editTitle = NoText]
    /\ UNCHANGED <<storeVars, tcalls, hcalls, page, fetched, backend, listing>>

\* onChange of the row's title input (line 120).
setEditTitle(t) ==
    /\ form.editingTask # None
    /\ form' = [form EXCEPT !.editTitle = t]
    /\ UNCHANGED <<storeVars, tcalls, hcalls, page, fetched, backend, listing>>

\* handleSaveEdit(taskId) up to its await (lines 30-45), from the Save button
\* of the row being edited (line 139).
handleSaveEdit(k) ==
    /\ form.editingTask = k
    /\ form.loading # k /\ trim(form.editTitle) # NoText
    /\ CanCall
    /\ form' = [form EXCEPT !.loading = k]
    /\ fetched' = [method |-> "PUT", url |-> "/api/tasks/" \o k,
                   authorization |-> SessionBearer,
                   body |-> EditPayload(form.editTitle, NoText)]
    /\ tcalls' = tcalls (+) SetToBag({RowPromise("save", k)})
    /\ UNCHANGED <<storeVars, hcalls, page, backend, listing>>

\* handleToggleComplete(taskId) up to its await (lines 60-66).
handleToggleComplete(k) ==
    /\ RowEnabled(k)
    /\ CanCall
    /\ form' = [form EXCEPT !.loading = k]
    /\ fetched' = [method |-> "PATCH", url |-> "/api/tasks/" \o k \o "/complete",
                   authorization |-> None, body |-> NoBody]
    /\ tcalls' = tcalls (+) SetToBag({RowPromise("toggle", k)})
    /\ UNCHANGED <<storeVars, hcalls, page, backend, listing>>

\* handleDelete(taskId), confirmed, up to its await (lines 78-86).
handleDelete(k) ==
    /\ RowEnabled(k)
    /\ CanCall
    /\ form' = [form EXCEPT !.loading = k]
    /\ fetched' = [method |-> "DELETE", url |-> "/api/tasks/" \o k,
                   authorization |-> None, body |-> NoBody]
    /\ tcalls' = tcalls (+) SetToBag({RowPromise("delete", k)})
    /\ UNCHANGED <<storeVars, hcalls, page, backend, listing>>

\* A row's handler resumes with r: a successful save leaves the edit mode
\* (lines 49-51); the finally block runs setLoading(null) (lines 56, 74, 94).
RowDone(c, r) ==
    /\ c \in TasksInFlight
    /\ tcalls' = tcalls (-) SetToBag({c})
    /\ form' = IF Ok(r) /\ c.by = "save"
               THEN [form EXCEPT !.editingTask = None, !.editTitle = NoText,
                                 !.loading = None]
               ELSE [form EXCEPT !.loading = None]
    /\ UNCHANGED <<storeVars, hcalls, page, fetched, backend, listing>>

ListNext ==
    \/ \E k \in Rows : handleEdit(k)
    \/ handleCancelEdit
    \/ \E t \in {NoText, <<"b">>} : setEditTitle(t)
    \/ \E k \in Rows : handleSaveEdit(k)
    \/ \E k \in Rows : handleToggleComplete(k)
    \/ \E k \in Rows : handleDelete(k)
    \/ \E c \in TasksInFlight, r \in TaskResponses : RowDone(c, r)

ListSpec == ListInit /\ [][ListNext]_vars

\* ------------------------------------------------------------ chat page

\* The chat page on a fixed session.  form holds its useState values
\* (messages, input, isLoading, error, conversationId); backend holds the
\* conversation id of the last response the chat endpoint answered with.

\* A message is submitted while fewer than this many are shown.
MaxMessages == 4

ConversationIds == {"c1", "c2"}

\* What POST /api/chat may settle with: 200 and { response, conversation_id },
\* a non-2xx status with an error body, or a transport failure.
ChatResponses ==
    [status : {"ok"}, conversation_id : ConversationIds]
    \cup [status : {"500", "transport"}, conversation_id : {None}]

ChatForm ==
    [owner |-> "chat", messages |-> <<>>, input |-> NoText,
     isLoading |-> FALSE, error |-> None, conversationId |-> None]

ChatInit ==
    /\ SignedOut \/ \E u \in Users, t \in StoredTokens : SignedIn(u, t)
    /\ tcalls = EmptyBag /\ hcalls = EmptyBag
    /\ page = [name |-> "chat", deps |-> <<user, isLoading>>]
    /\ form = ChatForm /\ fetched = NoFetch
    /\ backend = [conversation |-> None]
    /\ listing = NoListing

\* Variant of ChatRequest: the conversation id is never sent.
ChatRequestNoConversation(input, conversationId) == [message |-> input]

\* requestBody (lines 47-50): conversation_id is spread in when
\* conversationId is truthy.
ChatRequest(input, conversationId) ==
    IF Truthy(conversationId)
    THEN [message |-> input, conversation_id |-> conversationId]
    ELSE [message |-> input]

\* onChange of the input, which is disabled while isLoading (lines 137-141).
setInput(text) ==
    /\ user # None
    /\ ~form.isLoading
    /\ form' = [form EXCEPT !.input = text]
    /\ UNCHANGED <<storeVars, tcalls, hcalls, page, fetched, backend, listing>>

\* ChatPage.handleSubmit up to its await (lines 37-59).  The form is
\* submitted by the button or by Enter in the input, both disabled while
\* isLoading; the handler itself returns on a blank input or without a user.
ChatSubmit ==
    /\ ~form.isLoading
    /\ Len(form.messages) < MaxMessages
    /\ IF trim(form.input) = NoText \/ user = None
       THEN UNCHANGED <<form, fetched, tcalls>>
       ELSE /\ form' = [form EXCEPT
                          !.messages = Append(@, [role |-> "user",
                                                  content |-> form.input]),
                          !.input = NoText,
                          !.isLoading = TRUE,
                          !.error = None]
            /\ fetched' = [method |-> "POST", url |-> "/api/chat",
                           authorization |-> None,
                           body |-> ChatRequest(form.input, form.conversationId)]
            /\ tcalls' = tcalls (+) SetToBag({[by |-> "chat", nRequests |-> 1,
                                               message |-> form.input]})
    /\ UNCHANGED <<storeVars, hcalls, page, backend, listing>>

\* handleSubmit resumes with r (lines 61-76): the conversation id and the
\* assistant's message on success, the error otherwise; finally ends
\* isLoading.
ChatDone(c, r) ==
    /\ c \in TasksInFlight
    /\ c.by = "chat"
    /\ tcalls' = tcalls (-) SetToBag({c})
    /\ IF r.status = "ok"
       THEN /\ form' = [form EXCEPT
                          !.conversationId = r.conversation_id,
                          !.messages = Append(@, [role |-> "assistant",
                                                  content |-> <<"r">>]),
                          !.isLoading = FALSE]
            /\ backend' = [conversation |-> r.conversation_id]
       ELSE /\ form' = [form EXCEPT !.error = "error", !.isLoading = FALSE]
            /\ backend' = backend
    /\ UNCHANGED <<storeVars, hcalls, page, fetched, listing>>

ChatNext ==
    \/ \E text \in TypedTitles : setInput(text)
    \/ ChatSubmit
    \/ \E c \in TasksInFlight, r \in ChatResponses : ChatDone(c, r)

ChatSpec == ChatInit /\ [][ChatNext]_vars

\* ----------------------------------------------------------- statistics

\* The statistics of the dashboard, the analytics page and StatsCards.  They
\* read the fetched list through tasks.length and
\* tasks.filter(task => task.completed).length only, so listing.tasks holds
\* the list up to the order of its tasks: how many of them are completed and
\* how many are pending.

\* Number of tasks a fetched list may hold.
MaxListLength == 200

\* Math.round of the non-negative quotient num / den: the nearest integer,
\* a half rounded up.
round(num, den) == (2 * num + den) \div (2 * den)

\* dashboard/page.tsx lines 274-279 (and 93-95, StatsCards.tsx line 48).
Statistics(tasks) ==
    LET totalTasks == tasks.completed + tasks.pending
        completedTasks == tasks.completed
    IN  [totalTasks |-> totalTasks,
         completedTasks |-> completedTasks,
         pendingTasks |-> totalTasks - completedTasks,
         completionRate |-> IF totalTasks > 0
                            THEN round(completedTasks * 100, totalTasks)
                            ELSE 0]

\* The render after setTasks.
WithStatistics(tasks) == [tasks |-> tasks, stats |-> Statistics(tasks)]

\* A signed-in session on the analytics page, before its list arrived.
StatsInit ==
    /\ \E t \in StoredTokens : SignedIn(CHOOSE u \in Users : TRUE, t)
    /\ tcalls = EmptyBag /\ hcalls = EmptyBag
    /\ page = NoPage /\ form = NoForm /\ fetched = NoFetch
    /\ backend = StoredTask(FALSE)
    /\ listing = WithStatistics([completed |-> 0, pending |-> 0])

\* setTasks(response.data) of a re-fetch after a task was created.
TaskCreated ==
    /\ listing.stats.totalTasks < MaxListLength
    /\ \E b \in BOOLEAN :
          listing' = WithStatistics(
             IF b THEN [listing.tasks EXCEPT !.completed = @ + 1]
                  ELSE [listing.tasks EXCEPT !.pending = @ + 1])
    /\ UNCHANGED <<storeVars, tcalls, hcalls, page, form, fetched, backend>>

\* setTasks(response.data) of a re-fetch after a task's flag was toggled.
TaskToggled ==
    /\ \/ /\ listing.tasks.pending > 0
          /\ listing' = WithStatistics([completed |-> listing.tasks.completed + 1,
                                        pending |-> listing.tasks.pending - 1])
       \/ /\ listing.tasks.completed > 0
          /\ listing' = WithStatistics([completed |-> listing.tasks.completed - 1,
                                        pending |-> listing.tasks.pending + 1])
    /\ UNCHANGED <<storeVars, tcalls, hcalls, page, form, fetched, backend>>

\* setTasks(response.data) of a re-fetch after a task was deleted.
TaskDeleted ==
    /\ \/ /\ listing.tasks.pending > 0
          /\ listing' = WithStatistics([listing.tasks EXCEPT !.pending = @ - 1])
       \/ /\ listing.tasks.completed > 0
          /\ listing' = WithStatistics([listing.tasks EXCEPT !.completed = @ - 1])
    /\ UNCHANGED <<storeVars, tcalls, hcalls, page, form, fetched, backend>>

StatsNext == TaskCreated \/ TaskToggled \/ TaskDeleted

StatsSpec == StatsInit /\ [][StatsNext]_vars

\* ---------------------------------------------------------------- claims

\* Steps named by what they do to the state, for the step properties below.

\* The mount effect's validateToken() resumes and ends in this step.
ValidationEnds == validation.pc = "awaitSession" /\ validation'.pc = "done"

\* Invocation c leaves the store in this step (its promise settles).
Exits(c) == c \in InFlight /\ calls' = calls (-) SetToBag({c})

\* Invocation c resumes from its await in this step.
Resumes(c) == c \in InFlight /\ CopiesIn(c, calls') < CopiesIn(c, calls)

\* Invocation c is at the await of a login: its own, or the one signup
\* falls back to.
InLogin(c) == c.pc \in {"awaitSignin", "awaitFallback"}

\* A sign-in or sign-up payload that is a 2xx without the (user, token) pair.
Malformed(r) == r.status = "ok" /\ ~Accepts(r)

\* C1: in every reachable state user is non-null only if the in-memory token
\* is non-null, under any interleaving of the store's operations.
C1_UserOnlyWithToken == user # None => token # None

\* C2: with no token cookie stored at start, initialize ends with
\* isLoading = false, user = null, token = null, and has issued no request
\* (none to /api/auth/session, none to any other endpoint); initialize reads
\* the cookie without changing it.
C2_NoStoredToken ==
    /\ (Mounted /\ ~touched /\ validation.pc # "done")
          => validation.stored = cookie.value
    /\ (Mounted /\ ~touched /\ validation.stored = None)
          => /\ validation.pc = "skipped"
             /\ isLoading = FALSE
             /\ user = None
             /\ token = None
             /\ cookie = NoCookie
             /\ validation.sent = 0
             /\ wire = NoRequest
    /\ validation.pc = "skipped" => validation.sent = 0

C2_Witness ==
    validation.pc = "skipped" /\ ~touched /\ cookie = NoCookie /\ ~isLoading

\* C3: with a stored token and a session response that carries a user, the
\* step that ends initialize sets user to the returned user and leaves the
\* in-memory token and the cookie as they are; with no other store operation
\* started, the token is the stored token and the cookie still holds it with
\* its expiry.
C3_ValidationSuccess ==
    [][ValidationEnds
          => \A r \in SessionResponses :
               (SessionAccepts(r) /\ SessionResponse(r))
                 => /\ user' = r.user
                    /\ token' = token
                    /\ cookie' = cookie
                    /\ validation'.outcome = "user"
                    /\ ~touched => /\ token' = validation.stored
                                   /\ cookie' = [value |-> validation.stored,
                                                 expires |-> CookieExpiryDays]]_vars

C3_Witness ==
    /\ validation.pc = "done" /\ validation.outcome = "user" /\ ~touched
    /\ user \in Users /\ token = validation.stored
    /\ cookie = [value |-> validation.stored, expires |-> CookieExpiryDays]

\* C4: with a stored token and a session call that fails (transport error,
\* backend rejection, or a payload without a user), the step that ends
\* initialize removes the cookie, sets the in-memory token to null, does not
\* touch user (null when no other store operation was started), and nothing
\* is thrown: validateToken's promise resolves and no caller sees an error.
C4_ValidationFailure ==
    [][(/\ ValidationEnds
        /\ \E r \in SessionResponses : ~SessionAccepts(r) /\ SessionResponse(r))
          => /\ cookie' = NoCookie
             /\ token' = None
             /\ user' = user
             /\ ~touched => user' = None
             /\ validation'.outcome = "cleared"
             /\ validation'.result = "resolved"
             /\ validation'.error = None
             /\ settled' = settled]_vars

C4_Witness ==
    /\ validation.pc = "done" /\ validation.outcome = "cleared" /\ ~touched
    /\ cookie = NoCookie /\ token = None /\ user = None

\* C5: while the stored token is being validated (token non-null, user still
\* null), isLoading is true.
C5_LoadingCoversValidation ==
    (validation.pc = "awaitSession" /\ token # None /\ user = None)
        => isLoading = TRUE

\* C6: isLoading is true only while initialize has not run or a login/signup
\* is in flight (so it is false once no store operation is pending), and every
\* login and signup leaves isLoading = false in the step in which it exits,
\* whether it succeeds or fails.
C6_LoadingOnlyWhilePending ==
    /\ [](isLoading => (~Mounted \/ AuthInFlight # {}))
    /\ [][\A c \in InFlight :
            (c.kind \in {"login", "signup"} /\ Exits(c)) => isLoading' = FALSE]_vars

C6_Witness ==
    /\ settled.kind \in {"login", "signup"} /\ settled.result = "rejected"
    /\ calls = EmptyBag /\ ~isLoading

\* C7: a login whose sign-in response carries both a user and an access token
\* ends with user = the returned user, token = the returned access token, the
\* cookie holding that token with a 7-day expiry, and its promise resolved.
\* (The login that signup falls back to is a login call too.)
C7_LoginSuccess ==
    [][\A c \in InFlight :
          (InLogin(c) /\ Resumes(c))
            => \A r \in AuthResponses :
                 (Accepts(r) /\ (SigninResponse(c, r) \/ FallbackResponse(c, r)))
                   => /\ user' = r.user
                      /\ token' = r.access_token
                      /\ cookie' = [value |-> r.access_token,
                                    expires |-> CookieExpiryDays]
                      /\ settled'.loginResult = "resolved"
                      /\ settled'.loginError = None
                      /\ settled'.result = "resolved"]_vars

C7_Witness ==
    /\ settled.kind = "login" /\ settled.result = "resolved"
    /\ user \in Users /\ token \in Tokens
    /\ cookie = [value |-> token, expires |-> CookieExpiryDays]

\* C8: a login that fails (backend rejection, transport error, or a success
\* payload missing the user or the access token) changes neither user, token
\* nor cookie, from its call to its exit; isLoading is false afterwards and the
\* caller observes a rejection with the message 'Invalid email or password'.
C8_LoginFailure ==
    [][/\ \A cred \in Credentials :
            LoginStart(cred) => UNCHANGED <<user, token, cookie>>
       /\ \A c \in InFlight :
            (/\ InLogin(c)
             /\ Resumes(c)
             /\ \E r \in AuthResponses :
                  ~Accepts(r) /\ (SigninResponse(c, r) \/ FallbackResponse(c, r)))
              => /\ UNCHANGED <<user, token, cookie>>
                 /\ isLoading' = FALSE
                 /\ settled'.loginResult = "rejected"
                 /\ settled'.loginError = "Invalid email or password"
                 /\ c.kind = "login"
                      => /\ settled'.result = "rejected"
                         /\ settled'.error = "Invalid email or password"]_vars

C8_Witness ==
    /\ settled.kind = "login" /\ settled.result = "rejected"
    /\ settled.error = "Invalid email or password"
    /\ user \in Users /\ token \in Tokens /\ ~isLoading

\* What a caller can tell of a settled login / signup: how the promise
\* settled, with which message, and the store it left.
Observable(out) == [result |-> out.result, error |-> out.error, store |-> out.store]

\* C9: from the same store state, two failing logins (two failing signups)
\* whose causes differ (transport failure, 401, 5xx, malformed success
\* payload; for signup also a failed fallback login) leave the caller with the
\* same error message and the same user, token, cookie and isLoading: every
\* failing outcome equals the outcome of a transport failure, also that of a
\* fallback login that fails after any malformed sign-up payload.
C9_FailuresIndistinguishable ==
    LET transport == [status |-> "transport", user |-> None, access_token |-> None]
        noPair == [status |-> "ok", user |-> None, access_token |-> None]
        loginFailed == Observable(LoginSettle(Store, transport))
        signupFailed == Observable(SignupSettle(Store, transport))
        fallback == SignupSettle(Store, noPair)
    IN  /\ loginFailed.result = "rejected"
        /\ signupFailed.result = "rejected"
        /\ fallback.result = "fallback"
        /\ \A r \in AuthResponses :
             /\ ~Accepts(r) => Observable(LoginSettle(Store, r)) = loginFailed
             /\ r.status # "ok" => Observable(SignupSettle(Store, r)) = signupFailed
             /\ Malformed(r) => SignupSettle(Store, r) = fallback
             /\ ~Accepts(r)
                  => Observable(FallbackSettle(fallback.store, r)) = signupFailed

C9_Witness ==
    /\ settled.kind = "signup" /\ settled.result = "rejected"
    /\ settled.loginResult = "rejected" /\ settled.error = "Signup failed"
    /\ user \in Users

\* C10: when the sign-up response is a success without the user or the access
\* token, signup issues one sign-in request with its own email and password
\* and changes nothing else; when that login succeeds, signup resolves with
\* user, token and cookie taken from the sign-in response; when it fails,
\* signup rejects with 'Signup failed' and user, token and cookie are
\* unchanged; either way exactly one sign-in request was issued.
C10_SignupFallback ==
    [][\A c \in InFlight :
          /\ (/\ c.pc = "awaitSignup"
              /\ Resumes(c)
              /\ \E r \in AuthResponses : Malformed(r) /\ SignupResponse(c, r))
                => /\ wire' = [endpoint |-> "/api/auth/signin",
                               bearer |-> BearerNow, body |-> c.cred]
                   /\ \E d \in BagToSet(calls') :
                         /\ d.pc = "awaitFallback" /\ d.cred = c.cred
                         /\ d.nSignin = 1 /\ d.nSignup = 1
                   /\ BagCardinality(calls') = BagCardinality(calls)
                   /\ UNCHANGED <<user, token, cookie, settled>>
          /\ (c.pc = "awaitFallback" /\ Resumes(c))
                => \A r \in AuthResponses :
                     (Accepts(r) /\ FallbackResponse(c, r))
                       => /\ settled'.kind = "signup"
                          /\ settled'.result = "resolved"
                          /\ settled'.nSignin = 1 /\ settled'.nSignup = 1
                          /\ user' = r.user
                          /\ token' = r.access_token
                          /\ cookie' = [value |-> r.access_token,
                                        expires |-> CookieExpiryDays]
                          /\ wire' = wire
          /\ (/\ c.pc = "awaitFallback"
              /\ Resumes(c)
              /\ \E r \in AuthResponses : ~Accepts(r) /\ FallbackResponse(c, r))
                => /\ settled'.kind = "signup"
                   /\ settled'.result = "rejected"
                   /\ settled'.error = "Signup failed"
                   /\ settled'.nSignin = 1 /\ settled'.nSignup = 1
                   /\ UNCHANGED <<user, token, cookie>>
                   /\ wire' = wire]_vars

C10_Witness ==
    /\ settled.kind = "signup" /\ settled.result = "resolved"
    /\ settled.loginResult = "resolved" /\ settled.nSignin = 1
    /\ user \in Users /\ token \in Tokens /\ cookie.value = token

\* C11: a logout call whose sign-out request settles, with success or with a
\* failure, ends in that step with no user, no in-memory token and no token
\* cookie, and the promise it returned resolves: the sign-out failure is not
\* surfaced to the caller.
C11_LogoutAlwaysClears ==
    [][\A c \in InFlight :
          (c.kind = "logout" /\ Resumes(c))
            => \A r \in SignoutResponses :
                 SignoutResponse(c, r)
                   => /\ user' = None
                      /\ token' = None
                      /\ cookie' = NoCookie
                      /\ settled'.kind = "logout"
                      /\ settled'.result = "resolved"
                      /\ settled'.error = None
                      /\ settled'.nSignout = 1]_vars

\* A logout has settled while a user was signed in with a live cookie: the
\* state right after it shows the cleared session.
C11_Witness ==
    /\ settled.kind = "logout" /\ settled.result = "resolved"
    /\ user = None /\ token = None /\ cookie = NoCookie
    /\ wire.endpoint = "/api/auth/signout" /\ wire.bearer \in Tokens

\* A request leaves through the Request Client in this step: the mount effect
\* sends the session request, a store operation starts or falls back to
\* sign-in, or a view calls taskApi.
Issues ==
    \/ validation.pc = "unmounted" /\ validation'.pc = "awaitSession"
    \/ \E d \in BagToSet(calls') : CopiesIn(d, calls') > CopiesIn(d, calls)
    \/ BagCardinality(tcalls') > BagCardinality(tcalls)

\* C12: every request issued through the Request Client carries the bearer
\* token t exactly when the cookie holds t at the moment of issue, whatever
\* the in-memory token is; a request issued in the state a successful login
\* leaves carries the new token, and one issued in the state a completed
\* logout leaves carries none.
C12_BearerIsCookieAtIssue ==
    [][/\ Issues
           => /\ cookie.value \in Tokens => wire'.bearer = cookie.value
              /\ cookie.value \notin Tokens => wire'.bearer = None
       /\ \A c \in InFlight :
             /\ (c.kind = "login" /\ Resumes(c))
                   => \A r \in AuthResponses :
                        (Accepts(r) /\ SigninResponse(c, r))
                          => \A a \in (TaskApiCalls(r.user))' :
                               a.req.bearer = r.access_token
             /\ (c.kind = "logout" /\ Resumes(c))
                   => \A u \in Users : \A a \in (TaskApiCalls(u))' :
                        a.req.bearer = None]_vars

\* A view's task request went out with the token of a login that completed
\* before it, while the session request of the mount effect had carried the
\* stored token of the earlier visit.
C12_Witness ==
    /\ wire.endpoint = "/api/u1/tasks"
    /\ wire.bearer = "t2"
    /\ validation.bearer = "t1"
    /\ settled.kind = "login" /\ settled.result = "resolved"
    /\ token = "t2"

\* A step of the Session Store that may write the cookie: validateToken ends,
\* or a login, signup or logout invocation resumes.
StoreResumes == ValidationEnds \/ \E c \in InFlight : Resumes(c)

\* C13: the token cookie is written or removed only inside the Session
\* Store's login, signup and logout operations and initialize's failure path;
\* no step of any other operation changes it.
C13_CookieOnlyByStore ==
    [][cookie' # cookie => StoreResumes]_vars

\* The requests an invocation (in flight, or the one that settled last) has
\* issued: one sign-in for login, one sign-out for logout, one sign-up and at
\* most one sign-in for signup.
WithinBudget(c) ==
    /\ c.kind = "login" => c.nSignin = 1 /\ c.nSignup = 0 /\ c.nSignout = 0
    /\ c.kind = "logout" => c.nSignin = 0 /\ c.nSignup = 0 /\ c.nSignout = 1
    /\ c.kind = "signup" => c.nSignin \in {0, 1} /\ c.nSignup = 1 /\ c.nSignout = 0

\* The response r handed to a request of the store is a failure of that
\* request.
Failure(r) == r.status # "ok"

\* C14: nothing is retried.  initialize sends at most one session request;
\* login and logout issue one request each, signup one sign-up plus at most
\* one sign-in, each taskApi call one request.  A step in which a request
\* fails issues no further request, and the invocation it belongs to ends in
\* that step, its promise settling (once) with the failure or, for logout,
\* resolving.
C14_NoRetries ==
    [][/\ validation'.sent \in {0, 1}
       /\ \A c \in BagToSet(calls') : WithinBudget(c)
       /\ WithinBudget(settled')
       /\ \A c \in BagToSet(tcalls') : c.nRequests = 1
       /\ ValidationEnds => wire' = wire /\ validation'.sent = 1
       /\ BagCardinality(tcalls') < BagCardinality(tcalls)
             => /\ wire' = wire
                /\ BagCardinality(tcalls') = BagCardinality(tcalls) - 1
       /\ \A c \in InFlight :
             Resumes(c)
               => \/ /\ Exits(c)
                     /\ wire' = wire
                     /\ settled'.kind = c.kind
                     /\ settled'.result \in {"resolved", "rejected"}
                  \/ /\ c.pc = "awaitSignup"
                     /\ \E r \in AuthResponses :
                           ~Failure(r) /\ SignupResponse(c, r)
                     /\ BagCardinality(calls') = BagCardinality(calls)
                     /\ wire'.endpoint = "/api/auth/signin"
       /\ \A c \in InFlight :
             Resumes(c)
               => /\ \A r \in AuthResponses :
                       (/\ Failure(r)
                        /\ \/ SigninResponse(c, r)
                           \/ SignupResponse(c, r)
                           \/ FallbackResponse(c, r))
                         => /\ Exits(c)
                            /\ wire' = wire
                            /\ settled'.result = "rejected"
                  /\ \A r \in SignoutResponses \ {"ok"} :
                       SignoutResponse(c, r)
                         => /\ Exits(c)
                            /\ wire' = wire
                            /\ settled'.result = "resolved"]_vars

\* A signup whose sign-up request and whose fallback sign-in were both sent
\* has been rejected, after a taskApi request went out and failed.
C14_Witness ==
    /\ settled.kind = "signup" /\ settled.result = "rejected"
    /\ settled.nSignin = 1 /\ settled.nSignup = 1
    /\ validation.sent = 1
    /\ wire.endpoint = "/api/u1/tasks/k1"
    /\ tcalls = EmptyBag

\* C15: no protected page redirects to /auth/signin while the Session
\* Store's isLoading is true, and while it is true the page shows a
\* placeholder only.
C15_NoRedirectWhileLoading ==
    [][/\ (page.name \in Protected /\ page' = SignInPage) => ~isLoading
       /\ (page.name \in Protected /\ isLoading)
             => Shows(page.name) = "placeholder"]_vars

\* A view starts awaiting a task create, update, delete or complete-toggle
\* request in this step.
MutationIssued ==
    \E d \in BagToSet(tcalls') :
       /\ d.by \in {"submit", "toggle", "card", "delete", "TaskForm",
                     "TaskList", "TaskList.save"}
       /\ CopiesIn(d, tcalls') > CopiesIn(d, tcalls)

\* C16: every task create, update, delete and complete-toggle request a view
\* issues goes through the Request Client (none leaves by window.fetch), to a
\* path under /api/{userId}/tasks for the signed-in user's id, with the
\* bearer token when one is persisted.
C16_MutationsThroughClient ==
    [][MutationIssued
         => /\ fetched' = fetched
            /\ user # None
            /\ wire'.endpoint \in
                  {"/api/" \o user \o "/tasks"}
                  \cup {"/api/" \o user \o "/tasks/" \o k : k \in TaskIds}
                  \cup {"/api/" \o user \o "/tasks/" \o k \o "/complete" :
                          k \in TaskIds}
            /\ wire'.method \in {"POST", "PUT", "DELETE", "PATCH"}
            /\ wire'.bearer = (IF cookie.value \in Tokens THEN cookie.value
                               ELSE None)]_vars

\* C17: once the backend has applied two complete-toggles made from a view
\* (the dashboard's row control or a TaskCard), whatever the order of the
\* toggle responses and of the re-fetch after the first one, the task's
\* completed flag is the one it had before the first toggle.
C17_TwoTogglesRestore ==
    backend.applied = MaxToggles => backend.completed = backend.original

\* Two letters are the same up to case.
SameLetter(x, y) == x = y \/ {x, y} \in {{"a", "A"}, {"b", "B"}}

\* text contains search, case-insensitively.
ContainsCI(text, search) ==
    \E from \in 1..(Len(text) + 1) :
       /\ from + Len(search) - 1 <= Len(text)
       /\ \A k \in 1..Len(search) : SameLetter(text[from + k - 1], search[k])

\* task satisfies the dashboard's status filter and search string.
Wanted(task) ==
    /\ \/ listing.filter = "all"
       \/ listing.filter = "completed" /\ task.completed = TRUE
       \/ listing.filter = "pending" /\ task.completed = FALSE
    /\ \/ ContainsCI(task.title, listing.searchQuery)
       \/ /\ "description" \in DOMAIN task
          /\ ContainsCI(task.description, listing.searchQuery)

\* C18: the dashboard's filtered list holds exactly the fetched tasks that
\* satisfy the status filter and whose title or description contains the
\* search string case-insensitively (a task without description matches by
\* its title only, the empty search string matches every task), in the order
\* of the fetched list.
C18_FilteredTasks ==
    /\ listing.filteredTasks = SelectSeq(listing.tasks, Wanted)
    /\ listing.searchQuery = NoText
          => \A i \in 1..Len(listing.tasks) :
                matchesFilter(listing.tasks[i], listing.filter)
                   => \E j \in 1..Len(listing.filteredTasks) :
                         listing.filteredTasks[j] = listing.tasks[i]

\* Two fetched tasks, a status filter and a search string in capitals that
\* one task matches through its description only and the other not at all.
C18_Witness ==
    /\ listing.filter = "completed"
    /\ listing.searchQuery = <<"A">>
    /\ Len(listing.tasks) = 2
    /\ listing.tasks[1] = [title |-> <<"b">>, completed |-> TRUE]
    /\ listing.tasks[2] = [title |-> <<"b">>, description |-> <<"A">>,
                           completed |-> TRUE]
    /\ listing.filteredTasks = <<listing.tasks[2]>>

\* A handler starts awaiting a request of the kind `by` in this step.
Submitted(by) ==
    \E d \in BagToSet(tcalls') :
       d.by = by /\ CopiesIn(d, tcalls') > CopiesIn(d, tcalls)

\* C19: submitting the create-task page with title T, an empty description and
\* the completed box untouched, signed in as U, issues exactly one POST to
\* /api/U/tasks with body {title: T trimmed, completed: false} and no
\* description field; when the request succeeds the success alert is set and
\* the navigation to the task list is scheduled (and leads there), when it
\* fails the error alert is set, and either way the page's loading flag is
\* false again.
C19_CreateTask ==
    [][/\ (CreateTaskSubmit /\ form.description = NoText /\ ~form.completed)
            => /\ wire'.method = "POST"
               /\ wire'.endpoint = "/api/" \o user \o "/tasks"
               /\ wire'.body = [title |-> trim(form.title), completed |-> FALSE]
               /\ form.title \in {<<"a">>, <<" ", "a", " ">>}
                     => wire'.body.title = <<"a">>
               /\ form'.busy
               /\ BagCardinality(tcalls') = BagCardinality(tcalls) + 1
               /\ \A d \in BagToSet(tcalls') :
                     CopiesIn(d, tcalls') > CopiesIn(d, tcalls)
                        => d.by = "submit" /\ d.nRequests = 1
       /\ \A c \in TasksInFlight :
             (page.name = "create" /\ c.by = "submit"
                 /\ \E r \in TaskResponses : SubmitDone(c, r))
                => /\ wire' = wire /\ fetched' = fetched
                   /\ ~form'.busy
                   /\ form'.alert \in {"success", "error"}
                   /\ form'.alert = "success" <=> SubmitDone(c, "ok")
                   /\ form'.alert = "success"
                         <=> CopiesIn(Timer, tcalls') = CopiesIn(Timer, tcalls) + 1
                   /\ form'.alert = "error" => tcalls' = tcalls (-) SetToBag({c})
       /\ (page.name = "create" /\ TimerFires) => page' = TaskListPage]_vars

\* The create page after a successful submit of a title typed with spaces
\* around it: the POST for the signed-in user went out, the success alert
\* shows, loading is over and the navigation is scheduled.
C19_Witness ==
    /\ page.name = "create" /\ user = "u1"
    /\ form.title = <<" ", "a", " ">> /\ form.description = NoText
    /\ "method" \in DOMAIN wire
    /\ wire.method = "POST" /\ wire.endpoint = "/api/u1/tasks"
    /\ wire.body = [title |-> <<"a">>, completed |-> FALSE]
    /\ form.alert = "success" /\ ~form.busy
    /\ Timer \in TasksInFlight

\* C20: no create or update request sent by a view (the create page, the edit
\* page, TaskForm, TaskList's inline edit) carries a title that is empty
\* after trimming.
C20_NoEmptyTitle ==
    [][/\ Submitted("submit")
            => /\ wire'.method \in {"POST", "PUT"}
               /\ trim(wire'.body.title) # NoText
       /\ (Submitted("TaskForm") \/ Submitted("TaskList.save"))
            => /\ fetched'.method \in {"POST", "PUT"}
               /\ trim(fetched'.body.title) # NoText]_vars

\* A view has sent an update whose title was typed with spaces around it,
\* and sent it trimmed.
C20_Witness ==
    /\ form.title = <<" ", "a", " ">>
    /\ form.busy
    /\ \/ /\ page.name = "edit"
          /\ "method" \in DOMAIN wire
          /\ wire.method = "PUT" /\ wire.body.title = <<"a">>
       \/ /\ form.owner = "TaskList"
          /\ fetched.method = "PUT" /\ fetched.body.title = <<"a">>

\* The list requests in flight in a bag of pending work.
Fetches(bag) ==
    BagCardinality(BagOfAll(LAMBDA c : c.by,
                            [c \in {d \in BagToSet(bag) : d.by = "fetchTasks"}
                               |-> CopiesIn(c, bag)]))

\* C21: on the dashboard (the completed page has the same handlers), a delete
\* or toggle whose request succeeds is followed by exactly one list re-fetch,
\* issued by the step that handles the success response; one whose request
\* fails issues no re-fetch, leaves the held list and the fetch-error field as
\* they were, and sets an error alert.
C21_RefetchOnSuccessOnly ==
    [][\A c \in TasksInFlight :
          (page.name = "dashboard" /\ c.by \in {"toggle", "delete"})
             => /\ ToggleDone(c, "ok")
                   => /\ Fetches(tcalls') = Fetches(tcalls) + 1
                      /\ wire' = getTasks(user)
                      /\ form'.alert = "success"
                /\ \A r \in TaskResponses \ {"ok"} :
                      ToggleDone(c, r)
                         => /\ Fetches(tcalls') = Fetches(tcalls)
                            /\ wire' = wire /\ fetched' = fetched
                            /\ form'.task = form.task
                            /\ form'.completed = form.completed
                            /\ form'.error = form.error
                            /\ form'.loading = form.loading
                            /\ form'.alert = "error"]_vars

\* The dashboard after a delete that failed: the error alert shows, the row
\* is still held, no list request is in flight and the last request issued
\* is the DELETE.
C21_Witness ==
    /\ page.name = "dashboard"
    /\ form.alert = "error" /\ form.task = "k1" /\ form.error = None
    /\ tcalls = EmptyBag
    /\ "method" \in DOMAIN wire /\ wire.method = "DELETE"

\* C22: a visitor who loads the dashboard, analytics, completed, settings or
\* chat page with a stored token (the page's effect first ran before the
\* store's mount effect, with isLoading true) is not sent to /auth/signin
\* while the start-up validation of that token is still awaiting the
\* backend's answer, which may accept it, and nothing else has been started.
C22_NoStartupRedirect ==
    [][(page.name \in WaitsForStore /\ page' = SignInPage)
          => ~(/\ validation.pc = "awaitSession"
               /\ ~touched
               /\ page.deps = <<None, TRUE>>)]_vars

\* C23: under the Session Store's own operations, once the mount effect has
\* read the cookie the in-memory token equals the value of the persisted
\* token cookie: both absent, or both the same string.
C23_TokenIsCookie ==
    Mounted => token = cookie.value

\* A login has replaced the token the visit started with, after the start-up
\* validation of the stored one ended: the cookie and the in-memory token
\* both hold the new one.
C23_Witness ==
    /\ validation.pc = "done" /\ validation.stored = "t1"
    /\ settled.kind = "login" /\ settled.result = "resolved"
    /\ token = "t2" /\ cookie.value = "t2"

\* C24: a user that the start-up validation sets comes from the introspection
\* of the token currently held: when validateToken sets user from the session
\* response, the token in memory and in the cookie is the one the session
\* request carried, also when a login completed in the meantime.
C24_UserOfHeldToken ==
    [][(ValidationEnds /\ validation'.outcome = "user")
          => /\ user' # None
             /\ token' = validation.bearer
             /\ cookie'.value = validation.bearer]_vars

\* C25: once a logout has cleared the session and no login or signup has
\* settled since, the response to the start-up validation (in flight since
\* the mount, so since before the logout ran) does not re-establish it: user
\* and token stay null and the cookie stays absent.
C25_LogoutIsFinal ==
    [][(/\ ValidationEnds
        /\ settled.kind = "logout"
        /\ user = None /\ token = None /\ cookie = NoCookie)
          => user' = None /\ token' = None /\ cookie' = NoCookie]_vars

\* C26: on the dashboard, when the last outstanding list re-fetch of the
\* delete and toggle actions made so far succeeds (the requests settled
\* before it having left neither a fetch error nor an error alert), the task
\* list the view then holds is the backend's list, also when the responses
\* of overlapping re-fetches arrive out of order.
C26_ListIsBackend ==
    [][\A c \in TasksInFlight :
          (/\ page.name = "dashboard" /\ c.by = "fetchTasks"
           /\ form.error = None /\ form.alert = "success"
           /\ FetchTasksDone(c, "ok")
           /\ tcalls' = EmptyBag)
             => [task |-> form'.task, completed |-> form'.completed]
                   = ListOf(backend')]_vars

\* The mutation requests in flight for task k.
InFlightFor(k) ==
    BagCardinality(BagOfAll(LAMBDA c : c.by,
                            [c \in {d \in TasksInFlight : d.task = k}
                               |-> CopiesIn(c, tcalls)]))

\* C27: in TaskList, a row's controls stay disabled while a mutation request
\* for its task is in flight, so at most one mutation request per task is in
\* flight, also when mutations on other rows start or finish in the meantime.
C27_OneMutationPerRow ==
    \A k \in Rows : InFlightFor(k) <= 1

\* C28: a request that TaskList sends with window.fetch carries an
\* Authorization header only when a token cookie is persisted at that time,
\* and the header is then the bearer of that token; the inline-edit save
\* sends no other value.
C28_NoBearerWithoutCookie ==
    [][\A k \in Rows :
          (handleSaveEdit(k) \/ handleToggleComplete(k) \/ handleDelete(k))
             => \/ fetched'.authorization = None
                \/ /\ Truthy(cookie.value)
                   /\ fetched'.authorization = "Bearer " \o cookie.value]_vars

\* C29: on the chat page, a submit with a blank input or without a user sends
\* nothing (every request leaves from a non-blank input of a signed-in
\* user); a request carries no conversation_id before the first successful
\* response and the conversation_id of the most recent successful response
\* after it; the user's message is appended when the request is sent and the
\* assistant's message only on success, directly after the user message it
\* answers; a failed request sets the error, appends nothing and ends the
\* loading state.
C29_Chat ==
    [][/\ Submitted("chat")
            => /\ trim(form.input) # NoText /\ user # None
               /\ fetched'.url = "/api/chat" /\ fetched'.method = "POST"
               /\ fetched'.body.message = form.input
               /\ IF backend.conversation = None
                  THEN "conversation_id" \notin DOMAIN fetched'.body
                  ELSE /\ "conversation_id" \in DOMAIN fetched'.body
                       /\ fetched'.body.conversation_id = backend.conversation
               /\ form'.messages
                     = form.messages \o <<[role |-> "user", content |-> form.input]>>
               /\ form'.isLoading
       /\ (~Submitted("chat") /\ tcalls' = tcalls)
            => fetched' = fetched /\ form'.messages = form.messages
       /\ \A c \in TasksInFlight :
             (\E r \in ChatResponses : ChatDone(c, r))
                => /\ fetched' = fetched
                   /\ ~form'.isLoading
                   /\ IF backend' # backend \/ form'.error = None
                      THEN /\ Len(form'.messages) = Len(form.messages) + 1
                           /\ form'.messages[Len(form.messages) + 1].role = "assistant"
                           /\ form.messages[Len(form.messages)]
                                 = [role |-> "user", content |-> c.message]
                           /\ SubSeq(form'.messages, 1, Len(form.messages))
                                 = form.messages
                      ELSE /\ form'.error # None
                           /\ form'.messages = form.messages
                           /\ form'.conversationId = form.conversationId]_vars

\* A conversation in which the first request failed and the next two were
\* answered: the second user message follows the first, each assistant
\* message follows the message it answers, and the third request carried
\* the conversation id of the second one's response.
C29_Witness ==
    /\ Len(form.messages) = 5
    /\ form.messages[1].role = "user" /\ form.messages[2].role = "user"
    /\ form.messages[3].role = "assistant"
    /\ form.messages[4].role = "user" /\ form.messages[5].role = "assistant"
    /\ "conversation_id" \in DOMAIN fetched.body
    /\ fetched.body.conversation_id = "c2"
    /\ form.conversationId = "c1"
    /\ ~form.isLoading

\* C30: for every fetched list the statistics satisfy completedTasks +
\* pendingTasks = totalTasks with both counts non-negative, and the
\* completion rate is an integer in 0..100 that is 0 when there are no tasks
\* and is 100 exactly when there is at least one task and all are completed.
C30_Statistics ==
    LET st == listing.stats
    IN  /\ st.completedTasks + st.pendingTasks = st.totalTasks
        /\ st.completedTasks >= 0 /\ st.pendingTasks >= 0
        /\ st.completionRate \in 0..100
        /\ st.totalTasks = 0 => st.completionRate = 0
        /\ st.completionRate = 100
              <=> (st.totalTasks >= 1 /\ listing.tasks.pending = 0)

====
